---- MODULE Spec2Model ----
(***************************************************************************)
(* Model of the workflow builder's graph model, of its two exporters       *)
(* (SimpleWorkflowExporter, WorkflowExporter), of its store                *)
(* (workflowContext) and of the toolbar's file import.                     *)
(*                                                                         *)
(* JavaScript strings are sequences of one-character strings, so that      *)
(* startsWith, includes, split, the /^\d+$/ test, parseInt and template    *)
(* literals are computed on the characters as the code computes them.      *)
(* JavaScript values are tagged records: [t |-> "str", s |-> chars],       *)
(* [t |-> "num", n |-> Int], [t |-> "bool", b |-> BOOLEAN],                *)
(* [t |-> "undef"], and [t |-> "obj", ...fields].  An object's optional    *)
(* field is absent from the record's DOMAIN.                               *)
(* Node positions and styles are left out: no exporter or store operation  *)
(* reads them for anything but copying.                                    *)
(***************************************************************************)
EXTENDS Integers, Sequences, FiniteSets, TLC

VARIABLES workflow, simpleSpec, simpleImported, langflowSpec, langflowImported, pc,
          methodCall, store, generated

vars == <<workflow, simpleSpec, simpleImported, langflowSpec, langflowImported, pc,
          methodCall, store, generated>>

-----------------------------------------------------------------------------
(* Bounds of the model                                                     *)

\* longest input value (in characters) drawn for a node input
MaxValueLen == 4
\* most edges of a drawn workflow
MaxEdges == 2
\* most nodes of the store's current workflow
MaxStoreNodes == 2
\* most edges of the store's current workflow
MaxStoreEdges == 2
\* most ids drawn from generateId
MaxGenerated == 3

-----------------------------------------------------------------------------
(* JavaScript strings                                                      *)

Digits == <<"0", "1", "2", "3", "4", "5", "6", "7", "8", "9">>

DigitChars == {Digits[i] : i \in 1..10}

DigitValue(c) == (CHOOSE i \in 1..10 : Digits[i] = c) - 1

StartsWith(s, p) == Len(s) >= Len(p) /\ SubSeq(s, 1, Len(p)) = p

Includes(s, c) == \E i \in 1..Len(s) : s[i] = c

\* String.prototype.split(c) for a one-character separator c
RECURSIVE SplitFrom(_, _, _, _)
SplitFrom(s, c, i, cur) ==
    IF i > Len(s) THEN <<cur>>
    ELSE IF s[i] = c THEN <<cur>> \o SplitFrom(s, c, i + 1, <<>>)
    ELSE SplitFrom(s, c, i + 1, Append(cur, s[i]))

Split(s, c) == SplitFrom(s, c, 1, <<>>)

\* /^\d+$/.test(s)
IsDigits(s) == Len(s) > 0 /\ \A i \in 1..Len(s) : s[i] \in DigitChars

\* parseInt(s) of a string of decimal digits
RECURSIVE ParseInt(_)
ParseInt(s) ==
    IF Len(s) = 0 THEN 0
    ELSE 10 * ParseInt(SubSeq(s, 1, Len(s) - 1)) + DigitValue(s[Len(s)])

\* String(n) of a natural number
RECURSIVE NumToString(_)
NumToString(n) ==
    IF n < 10 THEN <<Digits[n + 1]>>
    ELSE Append(NumToString(n \div 10), Digits[(n % 10) + 1])

S_start == <<"s", "t", "a", "r", "t">>
S_string == <<"s", "t", "r", "i", "n", "g">>
S_any == <<"a", "n", "y">>
S_boolean == <<"b", "o", "o", "l", "e", "a", "n">>
S_number == <<"n", "u", "m", "b", "e", "r">>
S_object == <<"o", "b", "j", "e", "c", "t">>
S_true == <<"t", "r", "u", "e">>
S_default == <<"d", "e", "f", "a", "u", "l", "t">>
S_configPrefix == <<"$", "c", "o", "n", "f", "i", "g", ".">>
S_START == <<"_", "_", "s", "t", "a", "r", "t", "_", "_">>
S_END == <<"_", "_", "e", "n", "d", "_", "_">>
S_edgePrefix == <<"e", "d", "g", "e", "-">>
S_TRUE == <<"T", "R", "U", "E">>
S_FALSE == <<"F", "A", "L", "S", "E">>
S_Conditional == <<"C", "o", "n", "d", "i", "t", "i", "o", "n", "a", "l">>
S_importedPrefix == <<"i", "m", "p", "o", "r", "t", "e", "d", "-">>
S_trigger == <<"t", "r", "i", "g", "g", "e", "r">>
S_result == <<"r", "e", "s", "u", "l", "t">>
S_api_key == <<"a", "p", "i", "_", "k", "e", "y">>
S_model == <<"m", "o", "d", "e", "l">>
S_system_prompt == <<"s", "y", "s", "t", "e", "m", "_", "p", "r", "o", "m", "p", "t">>
S_user_prompt == <<"u", "s", "e", "r", "_", "p", "r", "o", "m", "p", "t">>
S_context == <<"c", "o", "n", "t", "e", "x", "t">>
S_response == <<"r", "e", "s", "p", "o", "n", "s", "e">>
S_confidence == <<"c", "o", "n", "f", "i", "d", "e", "n", "c", "e">>
S_tokens_used == <<"t", "o", "k", "e", "n", "s", "_", "u", "s", "e", "d">>
S_endpoint == <<"e", "n", "d", "p", "o", "i", "n", "t">>
S_parameters == <<"p", "a", "r", "a", "m", "e", "t", "e", "r", "s">>
S_status == <<"s", "t", "a", "t", "u", "s">>
S_cfgLlmApiKey == <<"$", "c", "o", "n", "f", "i", "g", ".", "l", "l", "m", "_", "a", "p", "i", "_", "k", "e", "y">>
S_cfgLlmModel == <<"$", "c", "o", "n", "f", "i", "g", ".", "l", "l", "m", "_", "m", "o", "d", "e", "l">>
S_cfgToolApiKey == <<"$", "c", "o", "n", "f", "i", "g", ".", "t", "o", "o", "l", "_", "a", "p", "i", "_", "k", "e", "y">>
S_value == <<"v", "a", "l", "u", "e">>
S_gpt4 == <<"g", "p", "t", "-", "4">>
S_temperature == <<"t", "e", "m", "p", "e", "r", "a", "t", "u", "r", "e">>
S_max_tokens == <<"m", "a", "x", "_", "t", "o", "k", "e", "n", "s">>
S_helpfulAssistant == <<"Y", "o", "u", " ", "a", "r", "e", " ", "a", " ", "h", "e", "l", "p", "f", "u", "l", " ", "a", "s", "s", "i", "s", "t", "a", "n", "t", ".">>
S_summary == <<"s", "u", "m", "m", "a", "r", "y">>
S_tool_type == <<"t", "o", "o", "l", "_", "t", "y", "p", "e">>
S_API == <<"A", "P", "I">>
S_method == <<"m", "e", "t", "h", "o", "d">>
S_GET == <<"G", "E", "T">>
S_headers == <<"h", "e", "a", "d", "e", "r", "s">>
S_braces == <<"{", "}">>
S_payload == <<"p", "a", "y", "l", "o", "a", "d">>
S_message == <<"m", "e", "s", "s", "a", "g", "e">>
S_userInputRequired == <<"U", "s", "e", "r", " ", "i", "n", "p", "u", "t", " ", "r", "e", "q", "u", "i", "r", "e", "d", ".">>
S_timeout == <<"t", "i", "m", "e", "o", "u", "t">>
S_priority == <<"p", "r", "i", "o", "r", "i", "t", "y">>
S_medium == <<"m", "e", "d", "i", "u", "m">>
S_requires_approval == <<"r", "e", "q", "u", "i", "r", "e", "s", "_", "a", "p", "p", "r", "o", "v", "a", "l">>

-----------------------------------------------------------------------------
(* JavaScript values                                                       *)

Str(s) == [t |-> "str", s |-> s]
Num(n) == [t |-> "num", n |-> n]
Bool(b) == [t |-> "bool", b |-> b]
Undef == [t |-> "undef"]
\* null and arrays as JSON.parse returns them
JsNull == [t |-> "null"]
JsArray(items) == [t |-> "arr", items |-> items]
IsArray(v) == v.t = "arr"

IsStr(v) == v.t = "str"

Truthy(v) ==
    CASE v.t = "str" -> v.s # <<>>
      [] v.t = "num" -> v.n # 0
      [] v.t = "bool" -> v.b
      [] v.t = "undef" -> FALSE
      [] v.t = "null" -> FALSE
      [] OTHER -> TRUE

\* a || b
Or(a, b) == IF Truthy(a) THEN a ELSE b

\* o.f and o?.f: undefined when o is a primitive or has no field f
Get(o, f) == IF o.t = "obj" /\ f \in DOMAIN o THEN o[f] ELSE Undef

-----------------------------------------------------------------------------
(* JavaScript objects used as maps (Record<string, any>): a sequence of     *)
(* [k, v] pairs with distinct keys, in insertion order.                     *)

HasKey(m, k) == \E i \in 1..Len(m) : m[i].k = k

Lookup(m, k) == m[CHOOSE i \in 1..Len(m) : m[i].k = k].v

\* m[k] = v
Put(m, k, v) ==
    IF HasKey(m, k)
    THEN [i \in 1..Len(m) |-> IF m[i].k = k THEN [k |-> k, v |-> v] ELSE m[i]]
    ELSE Append(m, [k |-> k, v |-> v])

\* an integer-like key ("0", "7", "12"), which a JavaScript object lists first
IsIndexKey(k) == IsDigits(k) /\ (Len(k) = 1 \/ k[1] # "0")

\* Object.keys(m): integer-like keys ascending, then the others as inserted
ObjectKeys(m) ==
    LET idx == SelectSeq(m, LAMBDA e : IsIndexKey(e.k))
        oth == SelectSeq(m, LAMBDA e : ~IsIndexKey(e.k))
        srt == SortSeq(idx, LAMBDA a, b : ParseInt(a.k) < ParseInt(b.k))
        all == srt \o oth
    IN  [i \in 1..Len(all) |-> all[i].k]

KeySet(m) == {m[i].k : i \in 1..Len(m)}

-----------------------------------------------------------------------------
(* Graph model: WorkflowNode, WorkflowEdge, Workflow                        *)
(*                                                                         *)
(* node.data.inputs and node.data.outputs are held in one of the two       *)
(* stored shapes: [shape |-> "array", items |-> <<entry, ...>>] or          *)
(* [shape |-> "map", m |-> <<[k, v], ...>>].                                *)

ArrayIO(items) == [shape |-> "array", items |-> items]
MapIO(m) == [shape |-> "map", m |-> m]

KV(k, v) == [k |-> k, v |-> v]

\* DefaultInputs for a constructor that declares no ports
DefaultInputs_None(type) == <<>>

\* WorkflowNode.initializeNodeData: the ports a node gets when it is
\* constructed without explicit inputs / outputs (data.inputs || inputs).
\* Number literals are integers here: 0.7 is kept as 7 (tenths); only their
\* being numbers and being non-zero is read by the exporters.
DefaultInputs(type) ==
    CASE type = "llm" ->
            <<KV(S_api_key, Str(<<>>)), KV(S_model, Str(S_gpt4)), KV(S_temperature, Num(7)),
              KV(S_max_tokens, Num(1024)), KV(S_system_prompt, Str(S_helpfulAssistant)),
              KV(S_user_prompt, Str(<<>>)), KV(S_context, Str(<<>>))>>
      [] type = "tool" ->
            <<KV(S_tool_type, Str(S_API)), KV(S_endpoint, Str(<<>>)), KV(S_method, Str(S_GET)),
              KV(S_headers, Str(S_braces)), KV(S_payload, Str(S_braces))>>
      [] type = "interrupt" ->
            <<KV(S_message, Str(S_userInputRequired)), KV(S_timeout, Num(300)),
              KV(S_priority, Str(S_medium)), KV(S_requires_approval, Bool(FALSE)),
              KV(S_string, Str(<<>>))>>
      [] OTHER -> <<>>

DefaultOutputs(type) ==
    CASE type = "start" -> <<KV(S_value, Str(S_string))>>
      [] type = "llm" -> <<KV(S_summary, Str(S_string))>>
      [] type = "tool" -> <<KV(S_result, Str(S_string))>>
      [] type = "interrupt" -> <<KV(S_value, Str(S_string))>>
      [] OTHER -> <<>>

initializeNodeData(type, data) ==
    [f \in DOMAIN data \cup {"inputs", "outputs"} |->
        CASE f = "inputs" ->
                 IF "inputs" \in DOMAIN data THEN data.inputs ELSE MapIO(DefaultInputs(type))
          [] f = "outputs" ->
                 IF "outputs" \in DOMAIN data THEN data.outputs ELSE MapIO(DefaultOutputs(type))
          [] OTHER -> data[f]]

\* new WorkflowNode(id, type, position, data)
NewWorkflowNode(id, type, data) ==
    [id |-> id, type |-> type, data |-> initializeNodeData(type, data)]

\* new WorkflowEdge(id, source, target, type, data)
NewWorkflowEdge(id, source, target, type, data) ==
    [id |-> id, source |-> source, target |-> target, type |-> type, data |-> data]

\* new Workflow(id, name, nodes, edges, createdAt, updatedAt); the dates are
\* clock readings
NewWorkflow(id, name, nodes, edges, createdAt, updatedAt) ==
    [id |-> id, name |-> name, nodes |-> nodes, edges |-> edges,
     createdAt |-> createdAt, updatedAt |-> updatedAt]

\* Workflow.addNode: a new Workflow value; the receiver is not changed
addNode(w, node, now) ==
    NewWorkflow(w.id, w.name, Append(w.nodes, node), w.edges, w.createdAt, now)

\* Workflow.addEdge: a new Workflow value; the receiver is not changed
addEdge(w, edge, now) ==
    NewWorkflow(w.id, w.name, w.nodes, Append(w.edges, edge), w.createdAt, now)

\* removeNode filtering the nodes only
removeNode_KeepsEdges(w, nodeId, now) ==
    NewWorkflow(w.id, w.name, SelectSeq(w.nodes, LAMBDA node : node.id # nodeId), w.edges,
                w.createdAt, now)

\* Workflow.removeNode: the node and the edges at it are filtered out
removeNode(w, nodeId, now) ==
    NewWorkflow(w.id, w.name,
                SelectSeq(w.nodes, LAMBDA node : node.id # nodeId),
                SelectSeq(w.edges, LAMBDA edge : edge.source # nodeId /\ edge.target # nodeId),
                w.createdAt, now)

\* Workflow.updateNode: every node with the id is replaced by updatedNode
updateNode(w, nodeId, updatedNode, now) ==
    NewWorkflow(w.id, w.name,
                [i \in 1..Len(w.nodes) |-> IF w.nodes[i].id = nodeId THEN updatedNode ELSE w.nodes[i]],
                w.edges, w.createdAt, now)

\* Workflow.removeEdge
removeEdge(w, edgeId, now) ==
    NewWorkflow(w.id, w.name, w.nodes, SelectSeq(w.edges, LAMBDA edge : edge.id # edgeId),
                w.createdAt, now)

\* Workflow.updateEdge: every edge with the id is replaced by updatedEdge
updateEdge(w, edgeId, updatedEdge, now) ==
    NewWorkflow(w.id, w.name, w.nodes,
                [i \in 1..Len(w.edges) |-> IF w.edges[i].id = edgeId THEN updatedEdge ELSE w.edges[i]],
                w.createdAt, now)

\* a call whose receiver loses its lists
ReceiverAfterCall_Emptied(w) == [w EXCEPT !.nodes = <<>>, !.edges = <<>>]

\* the receiver after a call of one of the six methods: each builds its lists
\* with a spread, filter or map and assigns to no field of `this`
ReceiverAfterCall(w) == w

\* Array.prototype.find over a sequence: the first element satisfying P,
\* as a one-element sequence, or <<>> when there is none
Find(seq, P(_)) ==
    LET hit == SelectSeq(seq, P) IN IF hit = <<>> THEN <<>> ELSE <<hit[1]>>

\* left fold of op over a sequence
RECURSIVE FoldLeft(_, _, _)
FoldLeft(op(_, _), acc, seq) ==
    IF seq = <<>> THEN acc ELSE FoldLeft(op, op(acc, Head(seq)), Tail(seq))

-----------------------------------------------------------------------------
(* SimpleWorkflowExporter.convertNodeToSimpleSpec                           *)

\* `${v}` of a value inside a template literal
TemplateStr(v) ==
    CASE v.t = "str" -> v.s
      [] v.t = "num" -> NumToString(v.n)
      [] v.t = "bool" -> IF v.b THEN S_true ELSE <<"f", "a", "l", "s", "e">>
      [] OTHER -> <<"u", "n", "d", "e", "f", "i", "n", "e", "d">>

\* OutputAt with the index taken as one-based
OutputAt_OneBased(node, idx) ==
    IF 1 <= idx /\ idx <= Len(node.data.outputs.items) THEN node.data.outputs.items[idx] ELSE Undef

\* OutputAt giving the last entry for an index past the end
OutputAt_Clamped(node, idx) ==
    LET items == node.data.outputs.items
    IN  IF items = <<>> THEN Undef
        ELSE IF idx + 1 <= Len(items) THEN items[idx + 1] ELSE items[Len(items)]

\* referencedNode.data.outputs[outputIndex]
OutputAt(node, idx) ==
    IF idx + 1 <= Len(node.data.outputs.items) THEN node.data.outputs.items[idx + 1] ELSE Undef

\* "Fix foreign variable references - convert from node.0 format to
\* node.variableName format" (the block repeated for each stored shape)
NormalizeReference(inputValue, allNodes) ==
    IF IsStr(inputValue) /\ StartsWith(inputValue.s, <<"$">>) /\ Includes(inputValue.s, ".")
    THEN LET parts == Split(inputValue.s, ".")
         IN  IF Len(parts) >= 2 /\ IsDigits(parts[2])
             THEN LET referencedNodeId == Tail(parts[1])
                      referencedNode == Find(allNodes, LAMBDA n : n.id = referencedNodeId)
                  IN  IF referencedNode # <<>> /\ referencedNode[1].data.outputs.shape = "array"
                      THEN LET referencedOutput == OutputAt(referencedNode[1], ParseInt(parts[2]))
                           IN  IF Truthy(referencedOutput) /\ Truthy(Get(referencedOutput, "name"))
                               THEN Str(<<"$">> \o referencedNodeId \o <<".">>
                                        \o TemplateStr(Get(referencedOutput, "name")))
                               ELSE inputValue
                      ELSE inputValue
             ELSE inputValue
    ELSE inputValue

\* one entry of an inputs array (lines 52-76)
ArrayInputStep(inputs, input, allNodes) ==
        IF Truthy(input) /\ Truthy(Get(input, "name"))
        THEN Put(inputs, TemplateStr(Get(input, "name")),
                 NormalizeReference(
                     Or(Or(Or(Get(input, "reference"), Get(input, "value")),
                           Get(input, "dataType")), Str(S_string)),
                     allNodes))
        ELSE inputs

\* value || reference || dataType || 'string' of a map entry
MapEntryValue(input) ==
    Or(Or(Or(Get(input, "value"), Get(input, "reference")), Get(input, "dataType")), Str(S_string))

\* one key of an inputs object (lines 78-144)
MapInputStep(inputs, key, m, allNodes) ==
        LET input == Lookup(m, key)
        IN  IF IsStr(input)
            THEN Put(inputs, key, NormalizeReference(input, allNodes))
            ELSE IF Truthy(input) /\ Truthy(Get(input, "name"))
            THEN Put(inputs, TemplateStr(Get(input, "name")),
                     NormalizeReference(MapEntryValue(input), allNodes))
            ELSE Put(inputs, key, NormalizeReference(MapEntryValue(input), allNodes))

ConvertInputs(node, allNodes) ==
    IF "inputs" \in DOMAIN node.data
    THEN IF node.data.inputs.shape = "array"
         THEN LET step(acc, input) == ArrayInputStep(acc, input, allNodes)
              IN  FoldLeft(step, <<>>, node.data.inputs.items)
         ELSE LET step(acc, key) == MapInputStep(acc, key, node.data.inputs.m, allNodes)
              IN  FoldLeft(step, <<>>, ObjectKeys(node.data.inputs.m))
    ELSE <<>>

\* one entry of an outputs array (lines 151-157)
ArrayOutputStep(outputs, output) ==
    IF Truthy(output) /\ Truthy(Get(output, "name"))
    THEN Put(outputs, TemplateStr(Get(output, "name")), Or(Get(output, "dataType"), Str(S_string)))
    ELSE outputs

\* one key of an outputs object (lines 159-168)
MapOutputStep(outputs, key, m) ==
        LET output == Lookup(m, key)
        IN  IF IsStr(output)
            THEN Put(outputs, key, output)
            ELSE IF Truthy(output) /\ Truthy(Get(output, "name"))
            THEN Put(outputs, TemplateStr(Get(output, "name")),
                     Or(Get(output, "dataType"), Str(S_string)))
            ELSE Put(outputs, key, Or(Get(output, "dataType"), Str(S_string)))

ConvertOutputs(node) ==
    IF "outputs" \in DOMAIN node.data
    THEN IF node.data.outputs.shape = "array"
         THEN FoldLeft(ArrayOutputStep, <<>>, node.data.outputs.items)
         ELSE LET step(acc, key) == MapOutputStep(acc, key, node.data.outputs.m)
              IN  FoldLeft(step, <<>>, ObjectKeys(node.data.outputs.m))
    ELSE <<>>

\* "Add default inputs/outputs based on node type" (lines 172-200)
TypeDefaultInputs(type, inputs) ==
    CASE type = "end" -> Put(inputs, S_result, Str(S_any))
      [] type = "llm" /\ Len(inputs) = 0 ->
            <<KV(S_api_key, Str(S_cfgLlmApiKey)), KV(S_model, Str(S_cfgLlmModel)),
              KV(S_system_prompt, Str(S_string)), KV(S_user_prompt, Str(S_string)),
              KV(S_context, Str(S_string))>>
      [] type = "tool" /\ Len(inputs) = 0 ->
            <<KV(S_api_key, Str(S_cfgToolApiKey)), KV(S_endpoint, Str(S_string)),
              KV(S_parameters, Str(S_object))>>
      [] OTHER -> inputs

TypeDefaultOutputs(type, outputs) ==
    CASE type = "start" -> Put(outputs, S_trigger, Str(S_boolean))
      [] type = "llm" /\ Len(outputs) = 0 ->
            <<KV(S_response, Str(S_string)), KV(S_confidence, Str(S_number)),
              KV(S_tokens_used, Str(S_number))>>
      [] type = "tool" /\ Len(outputs) = 0 ->
            <<KV(S_result, Str(S_any)), KV(S_status, Str(S_string))>>
      [] OTHER -> outputs

\* the "type" field of a spec node: the node's type unchanged
SimpleSpecType(type) == type

convertNodeToSimpleSpec(node, allNodes) ==
    [id |-> node.id,
     type |-> SimpleSpecType(node.type),
     label |-> Or(node.data.label, Str(node.id)),
     inputs |-> TypeDefaultInputs(node.type, ConvertInputs(node, allNodes)),
     outputs |-> TypeDefaultOutputs(node.type, ConvertOutputs(node))]

-----------------------------------------------------------------------------
(* SimpleWorkflowExporter.convertEdgesToSimpleSpec                          *)

Map(f(_), seq) == [i \in 1..Len(seq) |-> f(seq[i])]

\* the keys of the Map built by "group edges by source": the sources in the
\* order of their first edge
RECURSIVE SourcesInOrder(_, _)
SourcesInOrder(edges, seen) ==
    IF edges = <<>> THEN seen
    ELSE SourcesInOrder(Tail(edges),
            IF \E i \in 1..Len(seen) : seen[i] = Head(edges).source
            THEN seen ELSE Append(seen, Head(edges).source))

\* edgesBySource.get(sourceId) || []
EdgesOf(edges, sourceId) == SelectSeq(edges, LAMBDA e : e.source = sourceId)

Targets(edges) == Map(LAMBDA e : e.target, edges)

\* edge.data?.condition || 'true'
SimpleCondition(edge) == Or(Get(edge.data, "condition"), Str(S_true))

SimpleConditionalEdgeSpec(edge) ==
    [if |-> [condition |-> SimpleCondition(edge)], node |-> edge.target]

\* SimpleStartGroup listing only the non-conditional edges of the start node
SimpleStartGroup_SkipsConditional(startNode, edges) ==
    LET regular == SelectSeq(edges, LAMBDA e : e.type # "conditional")
    IN  IF startNode # <<>> /\ EdgesOf(regular, startNode[1].id) # <<>>
        THEN <<[from |-> S_START, to |-> [nodes |-> Targets(EdgesOf(regular, startNode[1].id))]]>>
        ELSE <<>>

\* the group of the start node (lines 228-239)
SimpleStartGroup(startNode, edges) ==
    IF startNode # <<>> /\ EdgesOf(edges, startNode[1].id) # <<>>
    THEN <<[from |-> S_START, to |-> [nodes |-> Targets(EdgesOf(edges, startNode[1].id))]]>>
    ELSE <<>>

\* the group of one other source (lines 242-283), as a sequence of 0 or 1 groups
SimpleSourceGroup(startNode, edges, sourceId) ==
    IF startNode # <<>> /\ sourceId = startNode[1].id THEN <<>>
    ELSE LET sourceEdges == EdgesOf(edges, sourceId)
             conditionalEdges == SelectSeq(sourceEdges, LAMBDA e : e.type = "conditional")
             regularEdges == SelectSeq(sourceEdges, LAMBDA e : e.type # "conditional")
         IN  IF Len(conditionalEdges) > 0
             THEN <<[from |-> sourceId,
                     to |-> [conditional_edges |-> Map(SimpleConditionalEdgeSpec, conditionalEdges),
                             nodes |-> IF Len(regularEdges) > 0 THEN Targets(regularEdges)
                                       ELSE <<S_END>>,
                             default |-> S_END]]>>
             ELSE IF Len(regularEdges) > 0
             THEN <<[from |-> sourceId, to |-> [nodes |-> Targets(regularEdges)]]>>
             ELSE <<>>

convertEdgesToSimpleSpec(nodes, edges) ==
    LET startNode == Find(nodes, LAMBDA n : n.type = "start")
        step(result, sourceId) == result \o SimpleSourceGroup(startNode, edges, sourceId)
    IN  FoldLeft(step, SimpleStartGroup(startNode, edges), SourcesInOrder(edges, <<>>))

exportToSimpleSpec(w) ==
    [version |-> <<"1", ".", "0">>,
     name |-> w.name,
     nodes |-> Map(LAMBDA node : convertNodeToSimpleSpec(node, w.nodes), w.nodes),
     edges |-> convertEdgesToSimpleSpec(w.nodes, w.edges)]

-----------------------------------------------------------------------------
(* SimpleWorkflowExporter.importFromSimpleSpec                              *)

\* value.startsWith('$config.') is a TypeError unless value is a string
ImportInputThrows(nodeSpec) ==
    \E i \in 1..Len(nodeSpec.inputs) : ~IsStr(nodeSpec.inputs[i].v)

\* the entry built for one key of nodeSpec.inputs (lines 304-313)
ImportInputEntry(nodeSpec, key) ==
    LET value == Lookup(nodeSpec.inputs, key)
        kept == IF StartsWith(value.s, S_configPrefix) THEN value ELSE Str(<<>>)
    IN  [t |-> "obj", name |-> Str(key), value |-> kept, dataType |-> Str(S_string),
         reference |-> kept]

\* the entry built for one key of nodeSpec.outputs (lines 317-322)
ImportOutputEntry(nodeSpec, key) ==
    [t |-> "obj", name |-> Str(key), dataType |-> Lookup(nodeSpec.outputs, key)]

\* the node type given to the WorkflowNode constructor: nodeSpec.type as any
SimpleImportType(type) == type

ImportSimpleNode(nodeSpec) ==
    NewWorkflowNode(nodeSpec.id, SimpleImportType(nodeSpec.type),
        [label |-> Or(nodeSpec.label, Str(nodeSpec.id)),
         inputs |-> ArrayIO(Map(LAMBDA key : ImportInputEntry(nodeSpec, key),
                                ObjectKeys(nodeSpec.inputs))),
         outputs |-> ArrayIO(Map(LAMBDA key : ImportOutputEntry(nodeSpec, key),
                                 ObjectKeys(nodeSpec.outputs)))])

\* `edge-${++edgeIdCounter}`
SimpleEdgeId(counter) == S_edgePrefix \o NumToString(counter)

\* edgeSpec.from === '__start__' ? nodes.find(n => n.type === 'start')?.id || 'start'
\*                               : edgeSpec.from
SimpleImportSource(nodes, from) ==
    IF from = S_START
    THEN LET startNode == Find(nodes, LAMBDA n : n.type = "start")
         IN  IF startNode # <<>> /\ startNode[1].id # <<>> THEN startNode[1].id ELSE S_start
    ELSE from

\* the edges appended for the to.nodes of a group (lines 361-374)
SimpleImportRegular(edges, sourceId, to) ==
    IF "nodes" \in DOMAIN to
    THEN LET step(acc, targetId) ==
                 IF targetId # S_END
                 THEN Append(acc, NewWorkflowEdge(SimpleEdgeId(Len(acc) + 1), sourceId, targetId,
                                 "default", [t |-> "obj", label |-> Str(<<>>)]))
                 ELSE acc
         IN  FoldLeft(step, edges, to.nodes)
    ELSE edges

\* the edges appended for the to.conditional_edges and to.default of a group
\* (lines 377-412)
SimpleImportConditional(edges, sourceId, to) ==
    IF "conditional_edges" \in DOMAIN to
    THEN LET step(acc, condEdge) ==
                 Append(acc, NewWorkflowEdge(SimpleEdgeId(Len(acc) + 1), sourceId, condEdge.node,
                             "conditional",
                             [t |-> "obj", label |-> Str(S_TRUE),
                              condition |-> condEdge.if.condition, isTrue |-> Bool(TRUE)]))
             withConds == FoldLeft(step, edges, to.conditional_edges)
         IN  IF "default" \in DOMAIN to /\ to.default # <<>> /\ to.default # S_END
             THEN Append(withConds,
                         NewWorkflowEdge(SimpleEdgeId(Len(withConds) + 1), sourceId, to.default,
                             "conditional",
                             [t |-> "obj", label |-> Str(S_FALSE),
                              condition |-> Str(S_default), isTrue |-> Bool(FALSE)]))
             ELSE withConds
    ELSE edges

\* every edge is pushed with the next counter value, so the counter is the
\* number of edges pushed so far
SimpleImportEdges(nodes, edgeSpecs) ==
    LET step(edges, edgeSpec) ==
            LET sourceId == SimpleImportSource(nodes, edgeSpec.from)
            IN  SimpleImportConditional(SimpleImportRegular(edges, sourceId, edgeSpec.to),
                                        sourceId, edgeSpec.to)
    IN  FoldLeft(step, <<>>, edgeSpecs)

\* `imported-${Date.now()}`; the constructor's `new Date()` defaults are the
\* same reading of the clock
ImportedId(now) == S_importedPrefix \o NumToString(now)

\* the result is [threw |-> TRUE] when the import ends in a TypeError
importFromSimpleSpec(spec, now) ==
    IF \E i \in 1..Len(spec.nodes) : ImportInputThrows(spec.nodes[i])
    THEN [threw |-> TRUE]
    ELSE LET nodes == Map(ImportSimpleNode, spec.nodes)
         IN  [threw |-> FALSE,
              workflow |-> NewWorkflow(ImportedId(now), spec.name, nodes,
                                       SimpleImportEdges(nodes, spec.edges), now, now)]

-----------------------------------------------------------------------------
(* WorkflowExporter.exportToLangflowSpec                                    *)

\* Object.entries(node.data.inputs || {}): an array lists its indices as keys
IOEntries(io) ==
    IF io.shape = "array"
    THEN [i \in 1..Len(io.items) |-> KV(NumToString(i - 1), io.items[i])]
    ELSE LET keys == ObjectKeys(io.m) IN [i \in 1..Len(keys) |-> KV(keys[i], Lookup(io.m, keys[i]))]

\* one input port (lines 61-72)
LangflowInputStep(inputs, entry) ==
    LET inputName == entry.k
        inputPort == entry.v
    IN  IF Truthy(Get(inputPort, "connectedTo"))
        THEN Put(inputs, inputName, Get(inputPort, "connectedTo"))
        ELSE IF Get(inputPort, "value") # Undef
        THEN Put(inputs, inputName, Get(inputPort, "value"))
        ELSE IF Truthy(Get(inputPort, "isTemplate"))
        THEN Put(inputs, inputName, Str(S_configPrefix \o inputName))
        ELSE inputs

\* one output port (lines 75-77)
LangflowOutputStep(outputs, entry) == Put(outputs, entry.k, Get(entry.v, "dataType"))

\* node.type === 'interrupt' ? 'input' : node.type
LangflowSpecType(type) == IF type = "interrupt" THEN "input" ELSE type

LangflowSpecNode(node) ==
    [id |-> node.id,
     type |-> LangflowSpecType(node.type),
     label |-> node.data.label,
     inputs |-> IF "inputs" \in DOMAIN node.data
                THEN FoldLeft(LangflowInputStep, <<>>, IOEntries(node.data.inputs)) ELSE <<>>,
     outputs |-> IF "outputs" \in DOMAIN node.data
                 THEN FoldLeft(LangflowOutputStep, <<>>, IOEntries(node.data.outputs)) ELSE <<>>]

\* edge.type === 'conditional' && edge.data.condition
IsLangflowConditional(edge) == edge.type = "conditional" /\ Truthy(Get(edge.data, "condition"))

\* conditionalEdges.get(sourceId): undefined is the empty sequence here
LangflowConditionals(edges, sourceId) ==
    Map(LAMBDA e : [if |-> [condition |-> Get(e.data, "condition")], node |-> e.target],
        SelectSeq(edges, LAMBDA e : e.source = sourceId /\ IsLangflowConditional(e)))

\* edgeMap.get(sourceId) || []
LangflowTargets(edges, sourceId) ==
    Targets(SelectSeq(edges, LAMBDA e : e.source = sourceId /\ ~IsLangflowConditional(e)))

\* the keys of edgeMap, in the order of their first regular edge
LangflowSources(edges) == SourcesInOrder(SelectSeq(edges, LAMBDA e : ~IsLangflowConditional(e)), <<>>)

\* workflow.nodes.find(n => n.id === targetId)?.type === 'end'
IsEndTarget(nodes, targetId) ==
    LET targetNode == Find(nodes, LAMBDA n : n.id = targetId)
    IN  targetNode # <<>> /\ targetNode[1].type = "end"

\* "Add start node edge" (lines 108-119)
LangflowStartGroup(startNode, edges) ==
    IF startNode # <<>> /\ Len(LangflowTargets(edges, startNode[1].id)) > 0
    THEN <<[from |-> S_START, to |-> [nodes |-> LangflowTargets(edges, startNode[1].id)]]>>
    ELSE <<>>

\* the `to` of one key of edgeMap (lines 125-161)
LangflowTo(nodes, edges, sourceId) ==
    LET conditionals == LangflowConditionals(edges, sourceId)
        targets == LangflowTargets(edges, sourceId)
        endNodes == SelectSeq(targets, LAMBDA t : IsEndTarget(nodes, t))
        regularNodes == SelectSeq(targets, LAMBDA t : ~IsEndTarget(nodes, t))
        to0 == <<>>
        to1 == IF Len(conditionals) > 0 THEN Put(to0, "conditional_edges", conditionals) ELSE to0
        to2 == IF Len(targets) > 0 /\ Len(regularNodes) > 0
               THEN Put(to1, "nodes", regularNodes) ELSE to1
        to3 == IF Len(targets) > 0 /\ Len(endNodes) > 0
               THEN Put(to2, "nodes", <<S_END>>) ELSE to2
        to4 == IF Len(conditionals) > 0 THEN Put(to3, "default", S_END) ELSE to3
    IN  [k \in {to4[i].k : i \in 1..Len(to4)} |-> Lookup(to4, k)]

LangflowSourceGroup(nodes, startNode, edges, sourceId) ==
    IF startNode # <<>> /\ sourceId = startNode[1].id THEN <<>>
    ELSE <<[from |-> sourceId, to |-> LangflowTo(nodes, edges, sourceId)]>>

LangflowSpecEdges(nodes, edges) ==
    LET startNode == Find(nodes, LAMBDA n : n.type = "start")
        step(result, sourceId) == result \o LangflowSourceGroup(nodes, startNode, edges, sourceId)
    IN  FoldLeft(step, LangflowStartGroup(startNode, edges), LangflowSources(edges))

exportToLangflowSpec(w) ==
    [version |-> <<"1", ".", "0">>,
     name |-> w.name,
     nodes |-> Map(LangflowSpecNode, w.nodes),
     edges |-> LangflowSpecEdges(w.nodes, w.edges)]

-----------------------------------------------------------------------------
(* WorkflowExporter.importFromLangflowSpec                                  *)

\* a call statement `workflow.addNode(node);` / `workflow.addEdge(edge);`:
\* the method returns a new Workflow, the statement drops it, and the
\* variable still names the receiver
CallStatement(receiver, returned) == receiver

\* specNode.type === 'input' ? 'interrupt' : specNode.type
LangflowImportType(type) == IF type = "input" THEN "interrupt" ELSE type

\* the inputs / outputs are passed as data.ioConfig, so data.inputs and
\* data.outputs are the constructor's defaults
LangflowImportNode(specNode) ==
    NewWorkflowNode(specNode.id, LangflowImportType(specNode.type), [label |-> specNode.label])

\* lines 179-200
LangflowImportNodes(wf, specNodes, now) ==
    LET step(w, specNode) == CallStatement(w, addNode(w, LangflowImportNode(specNode), now))
    IN  FoldLeft(step, wf, specNodes)

\* the id of the first node of the given type, or <<>> for undefined
LangflowFindId(w, type) ==
    LET n == Find(w.nodes, LAMBDA x : x.type = type) IN IF n = <<>> THEN <<>> ELSE n[1].id

\* `${sourceId}-${targetId}`
LangflowEdgeId(sourceId, targetId) == sourceId \o <<"-">> \o targetId

\* lines 211-228
LangflowImportRegular(wf, sourceId, to, now) ==
    IF "nodes" \in DOMAIN to
    THEN LET step(w, targetId) ==
                 LET actualTargetId == IF targetId = S_END THEN LangflowFindId(w, "end")
                                       ELSE targetId
                 IN  IF actualTargetId # <<>>
                     THEN CallStatement(w, addEdge(w,
                              NewWorkflowEdge(LangflowEdgeId(sourceId, actualTargetId), sourceId,
                                  actualTargetId, "default", [t |-> "obj", label |-> Str(<<>>)]),
                              now))
                     ELSE w
         IN  FoldLeft(step, wf, to.nodes)
    ELSE wf

\* lines 231-245
LangflowImportConditional(wf, sourceId, to, now) ==
    IF "conditional_edges" \in DOMAIN to
    THEN LET step(w, condEdge) ==
                 CallStatement(w, addEdge(w,
                     NewWorkflowEdge(LangflowEdgeId(sourceId, condEdge.node), sourceId,
                         condEdge.node, "conditional",
                         [t |-> "obj", label |-> Str(S_Conditional),
                          condition |-> condEdge.if.condition]), now))
         IN  FoldLeft(step, wf, to.conditional_edges)
    ELSE wf

\* lines 203-246
LangflowImportEdges(wf, specEdges, now) ==
    LET step(w, specEdge) ==
            LET sourceId == IF specEdge.from = S_START THEN LangflowFindId(w, "start")
                            ELSE specEdge.from
            IN  IF sourceId = <<>> THEN w
                ELSE LangflowImportConditional(
                         LangflowImportRegular(w, sourceId, specEdge.to, now),
                         sourceId, specEdge.to, now)
    IN  FoldLeft(step, wf, specEdges)

importFromLangflowSpec(spec, now) ==
    LangflowImportEdges(
        LangflowImportNodes(NewWorkflow(ImportedId(now), spec.name, <<>>, <<>>, now, now),
                            spec.nodes, now),
        spec.edges, now)

-----------------------------------------------------------------------------
(* The workflows the exporters are applied to                               *)
(*                                                                         *)
(* Node ids are not the reserved sentinels "__start__" / "__end__".         *)

ID_s == <<"s">>
ID_a == <<"a">>
ID_b == <<"b">>
ID_e == <<"e">>
ID_n == <<"n">>
ID_c == <<"c">>
N_x == <<"x">>
WorkflowName == <<"w">>
WorkflowId == <<"w", "1">>
\* the clock reading at which the workflows handed to the exporters were made
Created == 1

\* a node as the editor constructs it: a label, the ports of its type
PlainNode(id, type) == NewWorkflowNode(id, type, [label |-> Str(<<"L">> \o id)])

GraphNodeLists ==
    { <<PlainNode(ID_s, "start"), PlainNode(ID_a, "llm"), PlainNode(ID_e, "end")>>,
      <<PlainNode(ID_a, "tool"), PlainNode(ID_b, "interrupt")>> }

NodeIds(nodes) == {nodes[i].id : i \in 1..Len(nodes)}

EdgeTypes == {"default", "conditional", "parallel", "looping"}

\* the data of an edge: only conditional edges carry a condition, which may
\* be missing or empty
EdgeDatas(type) ==
    IF type = "conditional"
    THEN {[t |-> "obj"], [t |-> "obj", condition |-> Str(<<>>)],
          [t |-> "obj", condition |-> Str(<<"c">>)]}
    ELSE {[t |-> "obj"]}

\* the ends of the drawn edges: no edge enters the start node or leaves the
\* end node
EdgeSources(nodes) == {nodes[i].id : i \in {j \in 1..Len(nodes) : nodes[j].type # "end"}}
EdgeTargets(nodes) == {nodes[i].id : i \in {j \in 1..Len(nodes) : nodes[j].type # "start"}}

EdgeShapes(nodes) ==
    UNION { { [source |-> src, target |-> tgt, type |-> type, data |-> d] : d \in EdgeDatas(type) }
            : <<src, tgt, type>> \in EdgeSources(nodes) \X EdgeTargets(nodes) \X EdgeTypes }

\* the edge list of the shapes f[1], ..., f[k], with ids e1, e2, ...
EdgeList(f) ==
    [i \in DOMAIN f |-> NewWorkflowEdge(<<"e">> \o NumToString(i), f[i].source, f[i].target,
                                        f[i].type, f[i].data)]

\* the characters input values are drawn from
ValueChars == {"$", ".", "0", "1", "n"}

ValueStrings == UNION { [1..k -> ValueChars] : k \in 0..MaxValueLen }

\* further literal values: a template reference, a plain word, numbers, booleans
OtherValues ==
    {Str(S_configPrefix \o <<"k">>), Str(<<"h", "i">>), Num(0), Num(5), Bool(TRUE), Bool(FALSE)}

\* a few references and literals for the stored shapes that are not drawn in full
FewValues ==
    OtherValues \cup {Str(<<>>), Str(<<"$", "n", ".", "0">>), Str(<<"$", "n", ".", "1">>),
                      Str(<<"$", "n", ".", "a">>)}

AllValues == {Str(v) : v \in ValueStrings} \cup OtherValues

\* the stored shapes of the inputs of the consuming node, holding one input x
ConsumerInputs ==
    { ArrayIO(<<[t |-> "obj", name |-> Str(N_x), value |-> v]>>) : v \in AllValues }
    \cup { MapIO(<<KV(N_x, v)>>) : v \in FewValues }
    \cup { ArrayIO(<<[t |-> "obj", name |-> Str(N_x), dataType |-> Str(S_string), value |-> v,
                     reference |-> r]>>) : v \in FewValues, r \in {Str(<<>>), Str(<<"$", "n", ".", "0">>)} }
    \cup { MapIO(<<KV(N_x, [t |-> "obj", name |-> Str(N_x), dataType |-> Str(S_string), value |-> v,
                     reference |-> r])>>) : v \in FewValues, r \in {Str(<<>>), Str(<<"$", "n", ".", "0">>)} }

OutputEntry(name) == [t |-> "obj", name |-> Str(name), dataType |-> Str(S_string)]

\* the outputs the referenced node n declares
ReferencedOutputs ==
    { ArrayIO(<<>>),
      ArrayIO(<<OutputEntry(<<"a">>)>>),
      ArrayIO(<<OutputEntry(<<"a">>), OutputEntry(<<"r">>)>>),
      ArrayIO(<<OutputEntry(<<"1">>), OutputEntry(<<"a">>)>>),
      MapIO(<<KV(<<"a">>, OutputEntry(<<"a">>))>>) }

PortWorkflow(ins, outs) ==
    NewWorkflow(WorkflowId, WorkflowName,
        <<NewWorkflowNode(ID_c, "interrupt",
              [label |-> Str(<<"C">>), inputs |-> ins, outputs |-> ArrayIO(<<>>)]),
          NewWorkflowNode(ID_n, "tool",
              [label |-> Undef, inputs |-> ArrayIO(<<>>), outputs |-> outs])>>,
        <<>>, Created, Created)

-----------------------------------------------------------------------------
(* The state machine: a workflow is exported and the result imported        *)

None == [none |-> TRUE]

\* null
Null == [null |-> TRUE]

\* the store as created (workflowContext.ts 60-68)
EmptyStore ==
    [workflows |-> <<>>, currentWorkflow |-> Null, selectedNode |-> Null, selectedEdge |-> Null,
     conditionalEdgeMode |-> FALSE, conditionalSourceNode |-> Null, conditionalTrueNode |-> Null,
     conditionalFalseNode |-> Null, showConditionalPanel |-> FALSE]

\* the readings of Date.now()
Times == {1, 2}

\* a graph of plain nodes and up to MaxEdges edges
InitGraph ==
    \E nodes \in GraphNodeLists, k \in 0..MaxEdges :
        \E f \in [1..k -> EdgeShapes(nodes)] :
            workflow = NewWorkflow(WorkflowId, WorkflowName, nodes, EdgeList(f), Created, Created)

\* a node c with one input x and a node n it may refer to, no edges
InitPorts ==
    \E ins \in ConsumerInputs, outs \in ReferencedOutputs : workflow = PortWorkflow(ins, outs)

Init ==
    /\ (InitGraph \/ InitPorts)
    /\ simpleSpec = None
    /\ simpleImported = None
    /\ langflowSpec = None
    /\ langflowImported = None
    /\ methodCall = None
    /\ store = EmptyStore
    /\ generated = 0
    /\ pc = "ready"

\* Toolbar.handleExport
ExportToSimpleSpec ==
    /\ pc = "ready"
    /\ simpleSpec' = exportToSimpleSpec(workflow)
    /\ pc' = "simpleExported"
    /\ UNCHANGED <<workflow, simpleImported, langflowSpec, langflowImported, methodCall, store, generated>>

\* Toolbar.handleImport of a file written by handleExport
ImportFromSimpleSpec ==
    /\ pc = "simpleExported"
    /\ \E now \in Times : simpleImported' = importFromSimpleSpec(simpleSpec, now)
    /\ pc' = "simpleImported"
    /\ UNCHANGED <<workflow, simpleSpec, langflowSpec, langflowImported, methodCall, store, generated>>

\* Toolbar.handleExportLangflow, testWorkflowExport
ExportToLangflowSpec ==
    /\ pc = "ready"
    /\ langflowSpec' = exportToLangflowSpec(workflow)
    /\ pc' = "langflowExported"
    /\ UNCHANGED <<workflow, simpleSpec, simpleImported, langflowImported, methodCall, store, generated>>

\* testWorkflowImport
ImportFromLangflowSpec ==
    /\ pc = "langflowExported"
    /\ \E now \in Times : langflowImported' = importFromLangflowSpec(langflowSpec, now)
    /\ pc' = "langflowImported"
    /\ UNCHANGED <<workflow, simpleSpec, simpleImported, langflowSpec, methodCall, store, generated>>

Next ==
    \/ ExportToSimpleSpec
    \/ ImportFromSimpleSpec
    \/ ExportToLangflowSpec
    \/ ImportFromLangflowSpec

Spec == Init /\ [][Next]_vars

-----------------------------------------------------------------------------
(* The methods of Workflow, each called once on a drawn workflow            *)

\* a node and an edge handed to the methods; the node's id may be in use
ArgumentNodes == {PlainNode(ID_a, "interrupt"), PlainNode(ID_n, "tool")}
ArgumentEdges(w) ==
    {NewWorkflowEdge(<<"e", "9">>, w.nodes[1].id, w.nodes[Len(w.nodes)].id, "looping", [t |-> "obj"])}
ArgumentNodeIds(w) == NodeIds(w.nodes) \cup {ID_n}
ArgumentEdgeIds == {<<"e", "1">>, <<"e", "2">>, <<"e", "9">>}

MethodInit ==
    /\ InitGraph
    /\ simpleSpec = None
    /\ simpleImported = None
    /\ langflowSpec = None
    /\ langflowImported = None
    /\ methodCall = None
    /\ store = EmptyStore
    /\ generated = 0
    /\ pc = "ready"

\* the call is kept with its receiver as it was and its result
Called(op, arg, result) ==
    /\ pc = "ready"
    /\ methodCall' = [op |-> op, arg |-> arg, receiver |-> workflow, result |-> result]
    /\ workflow' = ReceiverAfterCall(workflow)
    /\ pc' = "called"
    /\ UNCHANGED <<simpleSpec, simpleImported, langflowSpec, langflowImported, store, generated>>

CallAddNode ==
    \E node \in ArgumentNodes, now \in Times :
        Called("addNode", node, addNode(workflow, node, now))

CallRemoveNode ==
    \E nodeId \in ArgumentNodeIds(workflow), now \in Times :
        Called("removeNode", nodeId, removeNode(workflow, nodeId, now))

CallUpdateNode ==
    \E nodeId \in ArgumentNodeIds(workflow), updatedNode \in ArgumentNodes, now \in Times :
        Called("updateNode", nodeId, updateNode(workflow, nodeId, updatedNode, now))

CallAddEdge ==
    \E edge \in ArgumentEdges(workflow), now \in Times :
        Called("addEdge", edge, addEdge(workflow, edge, now))

CallRemoveEdge ==
    \E edgeId \in ArgumentEdgeIds, now \in Times :
        Called("removeEdge", edgeId, removeEdge(workflow, edgeId, now))

CallUpdateEdge ==
    \E edgeId \in ArgumentEdgeIds, updatedEdge \in ArgumentEdges(workflow), now \in Times :
        Called("updateEdge", edgeId, updateEdge(workflow, edgeId, updatedEdge, now))

MethodNext ==
    \/ CallAddNode
    \/ CallRemoveNode
    \/ CallUpdateNode
    \/ CallAddEdge
    \/ CallRemoveEdge
    \/ CallUpdateEdge

MethodSpec == MethodInit /\ [][MethodNext]_vars

-----------------------------------------------------------------------------
(* The store (workflowContext.ts)                                          *)

\* a node type as the characters of its name
TypeChars(type) ==
    CASE type = "start" -> <<"s", "t", "a", "r", "t">>
      [] type = "end" -> <<"e", "n", "d">>
      [] type = "llm" -> <<"l", "l", "m">>
      [] type = "tool" -> <<"t", "o", "o", "l">>
      [] type = "interrupt" -> <<"i", "n", "t", "e", "r", "r", "u", "p", "t">>

\* type.charAt(0).toUpperCase() + type.slice(1)
Capitalized(type) ==
    CASE type = "start" -> <<"S">> \o Tail(TypeChars(type))
      [] type = "end" -> <<"E">> \o Tail(TypeChars(type))
      [] type = "llm" -> <<"L">> \o Tail(TypeChars(type))
      [] type = "tool" -> <<"T">> \o Tail(TypeChars(type))
      [] type = "interrupt" -> <<"I">> \o Tail(TypeChars(type))

\* String.prototype.trim for the blank character
RECURSIVE Trim(_)
Trim(str) ==
    IF str = <<>> THEN str
    ELSE IF Head(str) = " " THEN Trim(Tail(str))
    ELSE IF str[Len(str)] = " " THEN Trim(SubSeq(str, 1, Len(str) - 1))
    ELSE str

\* generateId(): the n-th id drawn; the ids drawn are distinct
generateId(n) == <<"g">> \o NumToString(n)

\* Workflow.findNode / findEdge: the first with the id, or <<>>
findNode(w, nodeId) == Find(w.nodes, LAMBDA node : node.id = nodeId)
findEdge(w, edgeId) == Find(w.edges, LAMBDA edge : edge.id = edgeId)

\* { ...a, ...b }
Spread(a, b) == [f \in DOMAIN a \cup DOMAIN b |-> IF f \in DOMAIN b THEN b[f] ELSE a[f]]

\* state.workflows.map(w => w.id === updatedWorkflow.id ? updatedWorkflow : w)
ReplaceWorkflow(workflows, updatedWorkflow) ==
    [i \in 1..Len(workflows) |->
        IF workflows[i].id = updatedWorkflow.id THEN updatedWorkflow ELSE workflows[i]]

\* set({ currentWorkflow: updatedWorkflow, workflows: ...map... })
SetCurrent(st, updatedWorkflow) ==
    [st EXCEPT !.currentWorkflow = updatedWorkflow,
               !.workflows = ReplaceWorkflow(st.workflows, updatedWorkflow)]

canAddNode(st, type) ==
    IF st.currentWorkflow = Null THEN TRUE
    ELSE IF type = "start"
    THEN ~\E i \in 1..Len(st.currentWorkflow.nodes) : st.currentWorkflow.nodes[i].type = "start"
    ELSE IF type = "end"
    THEN ~\E i \in 1..Len(st.currentWorkflow.nodes) : st.currentWorkflow.nodes[i].type = "end"
    ELSE TRUE

StoreCreateWorkflow(st, id, name, now) ==
    LET w == NewWorkflow(id, name, <<>>, <<>>, now, now)
    IN  [st EXCEPT !.workflows = Append(st.workflows, w), !.currentWorkflow = w]

\* addNode with a current workflow (lines 134-158)
StoreAddNodeTo(st, type, now) ==
    IF ~canAddNode(st, type) THEN st
    ELSE LET currentWorkflow == st.currentWorkflow
             existingNodesOfType == SelectSeq(currentWorkflow.nodes, LAMBDA n : n.type = type)
             nodeCounter == Len(existingNodesOfType) + 1
             nodeId == TypeChars(type) \o <<"_">> \o NumToString(nodeCounter)
             node == NewWorkflowNode(nodeId, type,
                         [label |-> Str(Capitalized(type) \o <<" ", "N", "o", "d", "e">>)])
         IN  SetCurrent(st, addNode(currentWorkflow, node, now))

\* addNode: without a current workflow one is created first with the id given
StoreAddNode(st, type, id, now) ==
    IF st.currentWorkflow = Null
    THEN StoreAddNodeTo(
             StoreCreateWorkflow(st, id, <<"U", "n", "t", "i", "t", "l", "e", "d">>, now),
             type, now)
    ELSE StoreAddNodeTo(st, type, now)

SelectedNodeIs(st, id) == st.selectedNode # Null /\ st.selectedNode.id = id
SelectedEdgeIs(st, id) == st.selectedEdge # Null /\ st.selectedEdge.id = id

StoreUpdateNode(st, id, data, now) ==
    IF st.currentWorkflow = Null THEN st
    ELSE LET existingNode == findNode(st.currentWorkflow, id)
         IN  IF existingNode = <<>> THEN st
             ELSE LET updatedNode == NewWorkflowNode(existingNode[1].id, existingNode[1].type,
                                                     Spread(existingNode[1].data, data))
                      updated == SetCurrent(st, updateNode(st.currentWorkflow, id, updatedNode, now))
                  IN  [updated EXCEPT !.selectedNode =
                          IF SelectedNodeIs(st, id) THEN updatedNode ELSE st.selectedNode]

\* updateNodeId: the store after the call; the call returns false exactly
\* when the store is unchanged by one of the early returns
StoreUpdateNodeId(st, oldId, newId, now) ==
    IF st.currentWorkflow = Null THEN st
    ELSE IF newId = <<>> \/ Trim(newId) = <<>> THEN st
    ELSE LET currentWorkflow == st.currentWorkflow
             trimmedNewId == Trim(newId)
             existingNode == findNode(currentWorkflow, oldId)
         IN  IF trimmedNewId # oldId /\ findNode(currentWorkflow, trimmedNewId) # <<>> THEN st
             ELSE IF existingNode = <<>> THEN st
             ELSE LET updatedNode == NewWorkflowNode(trimmedNewId, existingNode[1].type,
                                                     existingNode[1].data)
                      updatedEdges ==
                          [i \in 1..Len(currentWorkflow.edges) |->
                              LET edge == currentWorkflow.edges[i]
                              IN  IF edge.source = oldId \/ edge.target = oldId
                                  THEN NewWorkflowEdge(edge.id,
                                           IF edge.source = oldId THEN trimmedNewId ELSE edge.source,
                                           IF edge.target = oldId THEN trimmedNewId ELSE edge.target,
                                           edge.type, edge.data)
                                  ELSE edge]
                      removed == removeNode(currentWorkflow, oldId, now)
                      updatedWorkflow ==
                          NewWorkflow(removed.id, removed.name, Append(removed.nodes, updatedNode),
                                      updatedEdges, removed.createdAt, removed.updatedAt)
                      updated == SetCurrent(st, updatedWorkflow)
                  IN  [updated EXCEPT !.selectedNode =
                          IF SelectedNodeIs(st, oldId) THEN updatedNode ELSE st.selectedNode]

\* updateNodeId: the value returned
updateNodeIdReturns(st, oldId, newId) ==
    IF st.currentWorkflow = Null THEN FALSE
    ELSE IF newId = <<>> \/ Trim(newId) = <<>> THEN FALSE
    ELSE IF Trim(newId) # oldId /\ findNode(st.currentWorkflow, Trim(newId)) # <<>> THEN FALSE
    ELSE IF findNode(st.currentWorkflow, oldId) = <<>> THEN FALSE
    ELSE TRUE

\* updateNodePosition: positions are not kept, so the node put back is the
\* node found
StoreUpdateNodePosition(st, id, now) ==
    IF st.currentWorkflow = Null THEN st
    ELSE LET existingNode == findNode(st.currentWorkflow, id)
         IN  IF existingNode = <<>> THEN st
             ELSE SetCurrent(st, updateNode(st.currentWorkflow, id, existingNode[1], now))

StoreDeleteNode(st, id, now) ==
    IF st.currentWorkflow = Null THEN st
    ELSE LET updated == SetCurrent(st, removeNode(st.currentWorkflow, id, now))
         IN  [updated EXCEPT !.selectedNode = IF SelectedNodeIs(st, id) THEN Null ELSE st.selectedNode]

StoreAddEdge(st, id, source, target, type, now) ==
    IF st.currentWorkflow = Null THEN st
    ELSE LET edge == NewWorkflowEdge(id, source, target, type,
                         [t |-> "obj",
                          label |-> IF type = "conditional" THEN Str(<<"I", "f", " ", "t", "r", "u", "e">>)
                                    ELSE Str(<<>>)])
         IN  SetCurrent(st, addEdge(st.currentWorkflow, edge, now))

\* updateEdge: updates may carry a type beside the data fields
StoreUpdateEdge(st, id, updates, now) ==
    IF st.currentWorkflow = Null THEN st
    ELSE LET existingEdge == findEdge(st.currentWorkflow, id)
         IN  IF existingEdge = <<>> THEN st
             ELSE LET updatedData == Spread(existingEdge[1].data, updates)
                      edgeType == IF "type" \in DOMAIN updates THEN updates.type
                                  ELSE existingEdge[1].type
                      updatedEdge == NewWorkflowEdge(existingEdge[1].id, existingEdge[1].source,
                                         existingEdge[1].target, edgeType, updatedData)
                      updated == SetCurrent(st, updateEdge(st.currentWorkflow, id, updatedEdge, now))
                  IN  [updated EXCEPT !.selectedEdge =
                          IF SelectedEdgeIs(st, id) THEN updatedEdge ELSE st.selectedEdge]

StoreDeleteEdge(st, id, now) ==
    IF st.currentWorkflow = Null THEN st
    ELSE LET updated == SetCurrent(st, removeEdge(st.currentWorkflow, id, now))
         IN  [updated EXCEPT !.selectedEdge = IF SelectedEdgeIs(st, id) THEN Null ELSE st.selectedEdge]

StoreSelectConditionalNode(st, node, type) ==
    CASE type = "source" -> [st EXCEPT !.conditionalSourceNode = node]
      [] type = "true" -> [st EXCEPT !.conditionalTrueNode = node]
      [] type = "false" -> [st EXCEPT !.conditionalFalseNode = node]
      [] OTHER -> st

\* createConditionalBranch would run (line 431 does not return)
BranchReady(st) ==
    /\ st.conditionalSourceNode # Null
    /\ st.conditionalTrueNode # Null
    /\ st.conditionalFalseNode # Null
    /\ st.currentWorkflow # Null

\* createConditionalBranch leaving the conditional mode as it is
StoreCreateConditionalBranch_KeepsMode(st, trueEdgeId, falseEdgeId, condition, now) ==
    IF ~BranchReady(st) THEN st
    ELSE LET trueEdge == NewWorkflowEdge(trueEdgeId, st.conditionalSourceNode.id,
                             st.conditionalTrueNode.id, "conditional",
                             [t |-> "obj", label |-> Str(S_TRUE), condition |-> Str(condition),
                              isTrue |-> Bool(TRUE)])
             falseEdge == NewWorkflowEdge(falseEdgeId, st.conditionalSourceNode.id,
                              st.conditionalFalseNode.id, "conditional",
                              [t |-> "obj", label |-> Str(S_FALSE),
                               condition |-> Str(<<"!", "(">> \o condition \o <<")">>),
                               isTrue |-> Bool(FALSE)])
             updatedWorkflow == addEdge(addEdge(st.currentWorkflow, trueEdge, now), falseEdge, now)
         IN  [SetCurrent(st, updatedWorkflow) EXCEPT
                 !.conditionalSourceNode = Null, !.conditionalTrueNode = Null,
                 !.conditionalFalseNode = Null]

StoreCreateConditionalBranch(st, trueEdgeId, falseEdgeId, condition, now) ==
    IF ~BranchReady(st) THEN st
    ELSE LET trueEdge == NewWorkflowEdge(trueEdgeId, st.conditionalSourceNode.id,
                             st.conditionalTrueNode.id, "conditional",
                             [t |-> "obj", label |-> Str(S_TRUE), condition |-> Str(condition),
                              isTrue |-> Bool(TRUE)])
             falseEdge == NewWorkflowEdge(falseEdgeId, st.conditionalSourceNode.id,
                              st.conditionalFalseNode.id, "conditional",
                              [t |-> "obj", label |-> Str(S_FALSE),
                               condition |-> Str(<<"!", "(">> \o condition \o <<")">>),
                               isTrue |-> Bool(FALSE)])
             updatedWorkflow == addEdge(addEdge(st.currentWorkflow, trueEdge, now), falseEdge, now)
         IN  [SetCurrent(st, updatedWorkflow) EXCEPT
                 !.conditionalEdgeMode = FALSE, !.showConditionalPanel = FALSE,
                 !.conditionalSourceNode = Null, !.conditionalTrueNode = Null,
                 !.conditionalFalseNode = Null]

\* loadWorkflow
StoreLoadWorkflow(st, w) ==
    [st EXCEPT !.currentWorkflow = w, !.selectedNode = Null, !.selectedEdge = Null]

\* deleteWorkflow
StoreDeleteWorkflow(st, id) ==
    [st EXCEPT !.workflows = SelectSeq(st.workflows, LAMBDA w : w.id # id),
               !.currentWorkflow = IF st.currentWorkflow # Null /\ st.currentWorkflow.id = id
                                   THEN Null ELSE st.currentWorkflow]

\* setSelectedNode, setSelectedEdge
StoreSetSelectedNode(st, node) == [st EXCEPT !.selectedNode = node, !.selectedEdge = Null]
StoreSetSelectedEdge(st, edge) == [st EXCEPT !.selectedEdge = edge, !.selectedNode = Null]

\* setNodes, setEdges: the list of the current workflow is replaced
StoreSetNodes(st, nodes) ==
    IF st.currentWorkflow = Null THEN st
    ELSE LET w == st.currentWorkflow
         IN  [st EXCEPT !.currentWorkflow =
                 NewWorkflow(w.id, w.name, nodes, w.edges, w.createdAt, w.updatedAt)]
StoreSetEdges(st, edges) ==
    IF st.currentWorkflow = Null THEN st
    ELSE LET w == st.currentWorkflow
         IN  [st EXCEPT !.currentWorkflow =
                 NewWorkflow(w.id, w.name, w.nodes, edges, w.createdAt, w.updatedAt)]

-----------------------------------------------------------------------------
(* The store operations, called in any order on the store as created       *)

\* the node types and edge types the palette offers here
\* the node types addNode is called with: all those canAddNode tells apart
\* where the node operations are explored, fewer where the conditional
\* selection is explored as well, one more where nodes are only added and
\* deleted
StoreNodeTypes ==
    CASE pc \in {"branch", "conditional"} -> {"start", "llm"}
      [] pc = "panel" -> {"start", "end"}
      [] pc = "nodes" -> {"start", "end", "llm", "tool"}
      [] OTHER -> {"start", "end", "llm"}
StoreEdgeTypes == {"default"}

\* the ids of the current workflow's nodes and edges
CurrentNodeIds(st) == IF st.currentWorkflow = Null THEN {} ELSE NodeIds(st.currentWorkflow.nodes)
CurrentNodes(st) ==
    IF st.currentWorkflow = Null THEN {}
    ELSE {st.currentWorkflow.nodes[i] : i \in 1..Len(st.currentWorkflow.nodes)}
CurrentEdgeIds(st) ==
    IF st.currentWorkflow = Null THEN {}
    ELSE {st.currentWorkflow.edges[i].id : i \in 1..Len(st.currentWorkflow.edges)}

\* the ids a caller passes: those in use and one that is not
AnyNodeIds(st) == CurrentNodeIds(st) \cup {ID_n}
AnyEdgeIds(st) == CurrentEdgeIds(st) \cup {<<"e", "9">>}

\* the new ids typed for a node: blank, and (padded) the id the store gives
\* the first llm node
RenameIds == {<<" ">>, <<" ", "l", "l", "m", "_", "1">>}

NodeUpdates == {[label |-> Str(<<"L">>)]}
EdgeUpdates == {[type |-> "conditional", condition |-> Str(<<"c">>)]}

StoreClock == {2}

StoreInit ==
    /\ workflow = None
    /\ simpleSpec = None
    /\ simpleImported = None
    /\ langflowSpec = None
    /\ langflowImported = None
    /\ methodCall = None
    /\ store = EmptyStore
    /\ generated = 0
    /\ pc = "store"

\* where the conditional branch is explored, one id and one edge more are
\* allowed, so that a branch is added to a workflow that has an edge
StoreIdBound == IF pc = "conditional" THEN MaxGenerated + 1 ELSE MaxGenerated
StoreEdgeBound == IF pc = "conditional" THEN MaxStoreEdges + 1 ELSE MaxStoreEdges

\* the store after an operation that drew k ids from generateId; call is what
\* is remembered of the operation
StoreStepRecording(after, k, call) ==
    /\ pc \in {"store", "branch", "nodes", "panel", "conditional", "select", "edit"}
    /\ generated + k <= StoreIdBound
    /\ store' = after
    /\ generated' = generated + k
    /\ methodCall' = call
    /\ UNCHANGED <<workflow, simpleSpec, simpleImported, langflowSpec, langflowImported, pc>>

StoreStep(after, k) == StoreStepRecording(after, k, None)

\* where only nodes are added and deleted, one node more is allowed
StoreNodeBound == IF pc = "nodes" THEN MaxStoreNodes + 1 ELSE MaxStoreNodes

RoomForNodes(st) ==
    IF st.currentWorkflow = Null THEN TRUE ELSE Len(st.currentWorkflow.nodes) < StoreNodeBound
RoomForEdges(st, k) ==
    IF st.currentWorkflow = Null THEN TRUE ELSE Len(st.currentWorkflow.edges) + k <= StoreEdgeBound

CreateWorkflow ==
    /\ store.workflows = <<>>
    /\ \E now \in StoreClock :
           StoreStep(StoreCreateWorkflow(store, generateId(generated + 1), WorkflowName, now), 1)

AddNode ==
    /\ RoomForNodes(store)
    /\ \E type \in StoreNodeTypes, now \in StoreClock :
           StoreStep(StoreAddNode(store, type, generateId(generated + 1), now),
                     IF store.currentWorkflow = Null THEN 1 ELSE 0)

DeleteNode ==
    \E id \in AnyNodeIds(store), now \in StoreClock : StoreStep(StoreDeleteNode(store, id, now), 0)

UpdateNode ==
    \E id \in AnyNodeIds(store), data \in NodeUpdates, now \in StoreClock :
        StoreStep(StoreUpdateNode(store, id, data, now), 0)

UpdateNodeId ==
    \E oldId \in AnyNodeIds(store), newId \in RenameIds, now \in StoreClock :
        StoreStep(StoreUpdateNodeId(store, oldId, newId, now), 0)

UpdateNodePosition ==
    \E id \in AnyNodeIds(store), now \in StoreClock :
        StoreStep(StoreUpdateNodePosition(store, id, now), 0)

\* addEdge between nodes of the current workflow
AddEdge ==
    /\ RoomForEdges(store, 1)
    /\ \E source \in CurrentNodeIds(store), target \in CurrentNodeIds(store),
          type \in StoreEdgeTypes, now \in StoreClock :
           StoreStep(StoreAddEdge(store, generateId(generated + 1), source, target, type, now), 1)

UpdateEdge ==
    \E id \in AnyEdgeIds(store), updates \in EdgeUpdates, now \in StoreClock :
        StoreStep(StoreUpdateEdge(store, id, updates, now), 0)

DeleteEdge ==
    \E id \in AnyEdgeIds(store), now \in StoreClock : StoreStep(StoreDeleteEdge(store, id, now), 0)

\* selectConditionalNode with a node of the current workflow
SelectConditionalNode ==
    \E node \in CurrentNodes(store), type \in {"source", "true", "false"} :
        StoreStep(StoreSelectConditionalNode(store, node, type), 0)

\* the conditions typed: one, and a second where the branch is explored
BranchConditions == IF pc = "conditional" THEN {<<"c">>, <<"a", "b">>} ELSE {<<"c">>}

\* where the branch is explored the call is remembered with the store it
\* was made on
CreateConditionalBranch ==
    /\ RoomForEdges(store, 2)
    /\ \E condition \in BranchConditions, now \in StoreClock :
           StoreStepRecording(
               StoreCreateConditionalBranch(store, generateId(generated + 1),
                   generateId(generated + 2), condition, now),
               IF BranchReady(store) THEN 2 ELSE 0,
               IF pc = "conditional"
               THEN [op |-> "createConditionalBranch", condition |-> condition, before |-> store]
               ELSE None)

\* startConditionalEdgeMode
StartConditionalEdgeMode ==
    /\ pc = "conditional"
    /\ StoreStep([store EXCEPT !.conditionalEdgeMode = TRUE, !.showConditionalPanel = TRUE,
                               !.conditionalSourceNode = Null, !.conditionalTrueNode = Null,
                               !.conditionalFalseNode = Null], 0)

\* the operations that create, change and delete nodes and edges
StoreNext ==
    \/ CreateWorkflow
    \/ AddNode
    \/ DeleteNode
    \/ UpdateNode
    \/ UpdateNodeId
    \/ UpdateNodePosition
    \/ AddEdge
    \/ UpdateEdge
    \/ DeleteEdge
    \/ CreateConditionalBranch

StoreSpec == StoreInit /\ [][StoreNext]_vars

\* the operations that add and delete nodes and edges, with the selection of
\* the nodes of a conditional branch
BranchInit ==
    /\ workflow = None
    /\ simpleSpec = None
    /\ simpleImported = None
    /\ langflowSpec = None
    /\ langflowImported = None
    /\ methodCall = None
    /\ store = EmptyStore
    /\ generated = 0
    /\ pc = "branch"

BranchNext ==
    \/ AddNode
    \/ DeleteNode
    \/ UpdateNodeId
    \/ AddEdge
    \/ DeleteEdge
    \/ SelectConditionalNode
    \/ CreateConditionalBranch

BranchSpec == BranchInit /\ [][BranchNext]_vars

\* a conditional branch is drawn: the mode is entered, the three nodes are
\* picked and the branch is created
ConditionalInit ==
    /\ workflow = None
    /\ simpleSpec = None
    /\ simpleImported = None
    /\ langflowSpec = None
    /\ langflowImported = None
    /\ methodCall = None
    /\ store = EmptyStore
    /\ generated = 0
    /\ pc = "conditional"

ConditionalNext ==
    \/ AddNode
    \/ AddEdge
    \/ StartConditionalEdgeMode
    \/ SelectConditionalNode
    \/ CreateConditionalBranch

ConditionalSpec == ConditionalInit /\ [][ConditionalNext]_vars

\* a workflow is loaded, its nodes and edges are selected, changed and deleted
CurrentEdges(st) ==
    IF st.currentWorkflow = Null THEN {}
    ELSE {st.currentWorkflow.edges[i] : i \in 1..Len(st.currentWorkflow.edges)}

\* the workflow handed to loadWorkflow: two nodes and an edge between them
LoadedWorkflow ==
    NewWorkflow(WorkflowId, WorkflowName, <<PlainNode(ID_s, "start"), PlainNode(ID_a, "llm")>>,
                <<NewWorkflowEdge(<<"e", "1">>, ID_s, ID_a, "default", [t |-> "obj"])>>,
                Created, Created)

LoadWorkflow ==
    /\ pc \in {"select", "edit"}
    /\ StoreStep(StoreLoadWorkflow(store, LoadedWorkflow), 0)

DeleteWorkflow ==
    /\ pc = "select"
    /\ \E id \in {WorkflowId, ID_n} : StoreStep(StoreDeleteWorkflow(store, id), 0)

\* a node of the current workflow is clicked, or the pane (null)
SelectNode ==
    /\ pc = "select"
    /\ \E node \in CurrentNodes(store) \cup {Null} : StoreStep(StoreSetSelectedNode(store, node), 0)

SelectEdge ==
    /\ pc = "select"
    /\ \E edge \in CurrentEdges(store) \cup {Null} : StoreStep(StoreSetSelectedEdge(store, edge), 0)

SelectInit ==
    /\ workflow = None
    /\ simpleSpec = None
    /\ simpleImported = None
    /\ langflowSpec = None
    /\ langflowImported = None
    /\ methodCall = None
    /\ store = EmptyStore
    /\ generated = 0
    /\ pc = "select"

SelectNext ==
    \/ LoadWorkflow
    \/ SelectNode
    \/ SelectEdge
    \/ DeleteNode
    \/ DeleteEdge
    \/ UpdateNode
    \/ UpdateEdge
    \/ UpdateNodeId
    \/ DeleteWorkflow

SelectSpec == SelectInit /\ [][SelectNext]_vars

\* the lists handed to setNodes and setEdges: the list held, or that list
\* without its first element
ReplacementLists(shown) == {shown} \cup (IF shown = <<>> THEN {} ELSE {Tail(shown)})

SetNodes ==
    /\ pc = "edit"
    /\ store.currentWorkflow # Null
    /\ \E nodes \in ReplacementLists(store.currentWorkflow.nodes) : StoreStep(StoreSetNodes(store, nodes), 0)

SetEdges ==
    /\ pc = "edit"
    /\ store.currentWorkflow # Null
    /\ \E edges \in ReplacementLists(store.currentWorkflow.edges) : StoreStep(StoreSetEdges(store, edges), 0)

\* workflows are created and loaded, and their nodes and edges edited
EditInit ==
    /\ workflow = None
    /\ simpleSpec = None
    /\ simpleImported = None
    /\ langflowSpec = None
    /\ langflowImported = None
    /\ methodCall = None
    /\ store = EmptyStore
    /\ generated = 0
    /\ pc = "edit"

EditNext ==
    \/ CreateWorkflow
    \/ LoadWorkflow
    \/ AddNode
    \/ DeleteNode
    \/ SetNodes
    \/ SetEdges

EditSpec == EditInit /\ [][EditNext]_vars

\* nodes are added and deleted
NodesInit ==
    /\ workflow = None
    /\ simpleSpec = None
    /\ simpleImported = None
    /\ langflowSpec = None
    /\ langflowImported = None
    /\ methodCall = None
    /\ store = EmptyStore
    /\ generated = 0
    /\ pc = "nodes"

NodesNext ==
    \/ AddNode
    \/ DeleteNode

NodesSpec == NodesInit /\ [][NodesNext]_vars

-----------------------------------------------------------------------------
(* Toolbar.handleImport (the reader's onload) and Workflow.fromImportData    *)

\* nodeData.data.config is a TypeError when an element has no data
ElementThrows(items) == \E i \in 1..Len(items) : "data" \notin DOMAIN items[i]

\* `${Date.now()}-${Math.random().toString(36).substr(2, 9)}`
FallbackId(now, random) == NumToString(now) \o <<"-">> \o random

\* fromImportData that reads a missing edges field as no edges
fromImportData_EdgesOptional(importedData, now, random) ==
    LET nodes == Get(importedData, "nodes")
    IN  IF ~IsArray(nodes) \/ ElementThrows(nodes.items) THEN [threw |-> TRUE]
        ELSE [threw |-> FALSE,
              workflow |-> NewWorkflow(FallbackId(now, random), importedData.name,
                               Map(LAMBDA nodeData :
                                       NewWorkflowNode(nodeData.id, nodeData.type, nodeData.data),
                                   nodes.items),
                               <<>>, now, now)]

\* Workflow.fromImportData: [threw |-> TRUE] when it ends in a TypeError
\* (importedData.nodes.map, nodeData.data.config, importedData.edges.map,
\* edgeData.data.config)
fromImportData(importedData, now, random) ==
    LET nodes == Get(importedData, "nodes")
        edges == Get(importedData, "edges")
    IN  IF ~IsArray(nodes) THEN [threw |-> TRUE]
        ELSE IF ElementThrows(nodes.items) THEN [threw |-> TRUE]
        ELSE IF ~IsArray(edges) THEN [threw |-> TRUE]
        ELSE IF ElementThrows(edges.items) THEN [threw |-> TRUE]
        ELSE [threw |-> FALSE,
              workflow |->
                  NewWorkflow(IF Truthy(Get(importedData, "id")) THEN importedData.id.s
                              ELSE FallbackId(now, random),
                              importedData.name,
                              Map(LAMBDA nodeData :
                                      NewWorkflowNode(nodeData.id, nodeData.type, nodeData.data),
                                  nodes.items),
                              Map(LAMBDA edgeData :
                                      NewWorkflowEdge(edgeData.id, edgeData.source, edgeData.target,
                                                      edgeData.type, edgeData.data),
                                  edges.items),
                              now, now)]

\* importFromSimpleSpec applied to parsed JSON: spec.nodes.map and
\* spec.edges.forEach are TypeErrors unless nodes and edges are arrays
importParsedSimpleSpec(importedData, now) ==
    IF ~IsArray(Get(importedData, "nodes")) \/ ~IsArray(Get(importedData, "edges"))
    THEN [threw |-> TRUE]
    ELSE importFromSimpleSpec([version |-> importedData.version.s, name |-> importedData.name,
                               nodes |-> importedData.nodes.items,
                               edges |-> importedData.edges.items], now)

\* the try block up to loadWorkflow (part_008 lines 73-85): importedData.version
\* is a TypeError for null
reconstructWorkflow(importedData, now, random) ==
    IF importedData = JsNull THEN [threw |-> TRUE]
    ELSE IF /\ Truthy(Get(importedData, "version"))
            /\ Truthy(Get(importedData, "nodes"))
            /\ Truthy(Get(importedData, "edges"))
    THEN importParsedSimpleSpec(importedData, now)
    ELSE fromImportData(importedData, now, random)

InvalidFileAlert == "Invalid workflow file. Please check the format and try again."
ImportedAlert == "Successfully imported workflow"

\* the workflow whose exports the files hold
ToolbarWorkflow ==
    NewWorkflow(WorkflowId, WorkflowName, <<PlainNode(ID_s, "start"), PlainNode(ID_a, "llm")>>,
                EdgeList(<<[source |-> ID_s, target |-> ID_a, type |-> "default",
                            data |-> [t |-> "obj"]]>>),
                Created, Created)

\* what a file holds where an array is expected: nothing, null, a string, a
\* number, an object
NotArrays == {Undef, JsNull, Str(<<"x">>), Num(0), [t |-> "obj"]}

\* the nodes / edges arrays of the two file formats
SimpleArrays(field) == {JsArray(<<>>), JsArray(exportToSimpleSpec(ToolbarWorkflow)[field])}
LegacyArrays(field) == {JsArray(<<>>), JsArray(ToolbarWorkflow[field]), JsArray(<<Num(1)>>)}

\* edge groups of files written by hand: a default target with and without
\* conditional_edges
WrittenGroups ==
    {[from |-> ID_a, to |-> [default |-> ID_a]],
     [from |-> ID_a,
      to |-> [conditional_edges |-> <<[if |-> [condition |-> Str(<<"c">>)], node |-> ID_s]>>,
              default |-> ID_a]]}

SimpleEdgeArrays == SimpleArrays("edges") \cup {JsArray(<<group>>) : group \in WrittenGroups}

\* nodes of files written by hand, with an input that is a template reference
WrittenNodes ==
    {[id |-> ID_a, type |-> "llm", label |-> Str(<<"A">>),
      inputs |-> <<KV(<<"k">>, Str(S_configPrefix \o <<"k">>))>>, outputs |-> <<>>],
     [id |-> ID_e, type |-> "end", label |-> Str(<<"E">>),
      inputs |-> <<KV(S_result, Str(S_configPrefix \o <<"k">>))>>, outputs |-> <<>>]}

SimpleNodeArrays == SimpleArrays("nodes") \cup {JsArray(<<node>>) : node \in WrittenNodes}

\* files in the SimpleWorkflowSpec format, exported or written by hand
WrittenFiles ==
    {[t |-> "obj", version |-> Str(<<"1", ".", "0">>), name |-> WorkflowName,
      nodes |-> nodes, edges |-> edges] :
        nodes \in SimpleNodeArrays, edges \in SimpleEdgeArrays}

\* files of both formats, whole and damaged, and values that are no objects
AnyFiles ==
    {JsNull, Num(1), Str(<<"x">>), Bool(TRUE), JsArray(<<>>)}
    \cup {[t |-> "obj", version |-> Str(<<"1", ".", "0">>), name |-> WorkflowName,
           nodes |-> nodes, edges |-> edges] :
             nodes \in NotArrays \cup SimpleArrays("nodes"),
             edges \in NotArrays \cup SimpleArrays("edges")}
    \cup {[t |-> "obj", id |-> Str(WorkflowId), name |-> WorkflowName,
           nodes |-> nodes, edges |-> edges] :
             nodes \in NotArrays \cup LegacyArrays("nodes"),
             edges \in NotArrays \cup LegacyArrays("edges")}

\* the values JSON.parse returns for the files read
ParsedFiles == IF pc = "files" THEN WrittenFiles ELSE AnyFiles

ToolbarInit ==
    /\ workflow = None
    /\ simpleSpec = None
    /\ simpleImported = None
    /\ langflowSpec = None
    /\ langflowImported = None
    /\ methodCall = None
    /\ store = EmptyStore
    /\ generated = 0
    /\ pc = "toolbar"

\* reader.onload: the file's JSON parses to importedData
HandleImport ==
    /\ pc \in {"toolbar", "files"}
    /\ \E importedData \in ParsedFiles, now \in StoreClock :
           LET result == reconstructWorkflow(importedData, now, <<"r">>)
           IN  /\ store' = IF result.threw THEN store
                           ELSE StoreLoadWorkflow(store, result.workflow)
               /\ methodCall' = [op |-> "handleImport", arg |-> importedData, before |-> store,
                                 loadWorkflowCalled |-> ~result.threw,
                                 alert |-> IF result.threw THEN InvalidFileAlert
                                           ELSE ImportedAlert]
               /\ simpleSpec' = IF result.threw THEN simpleSpec ELSE None
    /\ UNCHANGED <<workflow, simpleImported, langflowSpec, langflowImported, generated, pc>>

\* Toolbar.handleExport (part_008 lines 25-46): simpleSpec is the file
\* written, of the current workflow
HandleExport ==
    /\ pc \in {"toolbar", "files"}
    /\ store.currentWorkflow # Null
    /\ simpleSpec' = exportToSimpleSpec(store.currentWorkflow)
    /\ UNCHANGED <<workflow, simpleImported, langflowSpec, langflowImported, methodCall, store,
                   generated, pc>>

\* setSelectedNode (workflowContext.ts 274-276) with a node of the current
\* workflow
SetSelectedNode ==
    /\ pc \in {"toolbar", "files", "panel"}
    /\ \E node \in CurrentNodes(store) :
           /\ store' = [store EXCEPT !.selectedNode = node, !.selectedEdge = Null]
           /\ methodCall' = [op |-> "setSelectedNode", arg |-> node]
    /\ UNCHANGED <<workflow, simpleSpec, simpleImported, langflowSpec, langflowImported,
                   generated, pc>>

\* files of any kind are read
ToolbarNext ==
    \/ HandleImport
    \/ SetSelectedNode

ToolbarSpec == ToolbarInit /\ [][ToolbarNext]_vars

\* files in the SimpleWorkflowSpec format are read and written
FilesInit ==
    /\ workflow = None
    /\ simpleSpec = None
    /\ simpleImported = None
    /\ langflowSpec = None
    /\ langflowImported = None
    /\ methodCall = None
    /\ store = EmptyStore
    /\ generated = 0
    /\ pc = "files"

FilesNext ==
    \/ HandleImport
    \/ HandleExport
    \/ SetSelectedNode

FilesSpec == FilesInit /\ [][FilesNext]_vars

-----------------------------------------------------------------------------
(* PropertiesPanel.handleSaveNode on the selected node                      *)

\* the id, label and description typed into the panel
PanelIds == {<<" ">>, <<"x">>, <<"e", "n", "d", "_", "1">>}
PanelLabels == {Str(<<"L">>)}
PanelDescriptions == {Str(<<"D">>)}

\* handleSaveNode for a node without a configuration (start, end): the store
\* after the call and whether errors were reported.  selectedNode is the value
\* the panel was rendered with, so both store calls get the id it had then.
handleSaveNode(st, nodeId, nodeLabel, nodeDescription, now) ==
    LET selectedNode == st.selectedNode
        idChanged == nodeId # selectedNode.id
        blank == nodeId = <<>> \/ Trim(nodeId) = <<>>
        renamed == IF idChanged /\ ~blank
                   THEN StoreUpdateNodeId(st, selectedNode.id, nodeId, now) ELSE st
        errors == idChanged /\ (blank \/ ~updateNodeIdReturns(st, selectedNode.id, nodeId))
    IN  [errors |-> errors,
         store |-> IF errors THEN renamed
                   ELSE StoreUpdateNode(renamed, selectedNode.id,
                            [label |-> nodeLabel, description |-> nodeDescription,
                             config |-> Undef], now)]

PanelInit ==
    /\ workflow = None
    /\ simpleSpec = None
    /\ simpleImported = None
    /\ langflowSpec = None
    /\ langflowImported = None
    /\ methodCall = None
    /\ store = EmptyStore
    /\ generated = 0
    /\ pc = "panel"

\* Save is pressed with a node selected (line 203)
HandleSaveNode ==
    /\ pc = "panel"
    /\ store.selectedNode # Null
    /\ \E nodeId \in PanelIds \cup {store.selectedNode.id}, nodeLabel \in PanelLabels,
          nodeDescription \in PanelDescriptions, now \in StoreClock :
           LET saved == handleSaveNode(store, nodeId, nodeLabel, nodeDescription, now)
           IN  /\ store' = saved.store
               /\ methodCall' = [op |-> "handleSaveNode", selectedNode |-> store.selectedNode,
                                 nodeId |-> nodeId, nodeLabel |-> nodeLabel,
                                 nodeDescription |-> nodeDescription, errors |-> saved.errors]
    /\ UNCHANGED <<workflow, simpleSpec, simpleImported, langflowSpec, langflowImported,
                   generated, pc>>

PanelNext ==
    \/ AddNode
    \/ DeleteNode
    \/ SetSelectedNode
    \/ HandleSaveNode

PanelSpec == PanelInit /\ [][PanelNext]_vars

-----------------------------------------------------------------------------
(* Properties                                                              *)

SimpleExported == pc \in {"simpleExported", "simpleImported"}
SimpleImportDone == pc = "simpleImported"
LangflowExported == pc \in {"langflowExported", "langflowImported"}
LangflowImportDone == pc = "langflowImported"

StartNodes(w) == SelectSeq(w.nodes, LAMBDA n : n.type = "start")
EndNodes(w) == SelectSeq(w.nodes, LAMBDA n : n.type = "end")

Elements(seq) == {seq[i] : i \in 1..Len(seq)}

\* a map as a function from its keys
AsFunction(m) == [k \in KeySet(m) |-> Lookup(m, k)]

\* every target a group names, in any of the three places
GroupTargets(to) ==
    (IF "nodes" \in DOMAIN to THEN Elements(to.nodes) ELSE {})
    \cup (IF "conditional_edges" \in DOMAIN to
          THEN {to.conditional_edges[i].node : i \in 1..Len(to.conditional_edges)} ELSE {})
    \cup (IF "default" \in DOMAIN to THEN {to.default} ELSE {})

\* C1: after export and import through the simple format, every edge of W has
\* an edge of W' with the same source, target and kind, and a conditional
\* edge with a condition has one with the same condition string.
C1_RoundTripKeepsEdges ==
    SimpleImportDone =>
        \A i \in 1..Len(workflow.edges) :
            LET e == workflow.edges[i]
            IN  /\ ~simpleImported.threw
                /\ \E j \in 1..Len(simpleImported.workflow.edges) :
                       LET d == simpleImported.workflow.edges[j]
                       IN  /\ d.source = e.source
                           /\ d.target = e.target
                           /\ d.type = e.type
                           /\ (e.type = "conditional" /\ IsStr(Get(e.data, "condition")))
                                  => Get(d.data, "condition") = Get(e.data, "condition")

\* C2: after export and import through the simple format, W' has the node ids
\* of W and each node has the type it has in W.
C2_RoundTripKeepsNodes ==
    SimpleImportDone =>
        /\ ~simpleImported.threw
        /\ NodeIds(simpleImported.workflow.nodes) = NodeIds(workflow.nodes)
        /\ \A i \in 1..Len(workflow.nodes) :
               \A j \in 1..Len(simpleImported.workflow.nodes) :
                   simpleImported.workflow.nodes[j].id = workflow.nodes[i].id
                       => simpleImported.workflow.nodes[j].type = workflow.nodes[i].type

\* the input ports of a node with their resolved values, and its output
\* ports with their types, as the exporter reads them from either stored shape
ResolvedInputs(node, allNodes) == AsFunction(ConvertInputs(node, allNodes))
ResolvedOutputs(node) == AsFunction(ConvertOutputs(node))

\* C3: after export and import through the simple format, every node has the
\* input ports (names and resolved values) and the output ports (names and
\* types) it has in W.
C3_RoundTripKeepsPorts ==
    SimpleImportDone =>
        /\ ~simpleImported.threw
        /\ Len(simpleImported.workflow.nodes) = Len(workflow.nodes)
        /\ \A i \in 1..Len(workflow.nodes) :
               LET n == workflow.nodes[i]
                   m == simpleImported.workflow.nodes[i]
               IN  /\ ResolvedInputs(m, simpleImported.workflow.nodes)
                          = ResolvedInputs(n, workflow.nodes)
                   /\ ResolvedOutputs(m) = ResolvedOutputs(n)

\* C4: after export and import through the Langflow format, W' has as many
\* nodes and as many edges as W.
C4_LangflowRoundTripKeepsCounts ==
    LangflowImportDone =>
        /\ Len(langflowImported.nodes) = Len(workflow.nodes)
        /\ Len(langflowImported.edges) = Len(workflow.edges)

\* C5: the import of an exported workflow completes without throwing.
C5_ImportIsTotal == SimpleImportDone => ~simpleImported.threw

\* the targets of the edges of w that leave sourceId, in edge order
OutNeighbours(w, sourceId) ==
    LET out == SelectSeq(w.edges, LAMBDA e : e.source = sourceId)
    IN  [i \in 1..Len(out) |-> out[i].target]

\* C6: when W has exactly one start node S and S has an outgoing edge, the
\* simple export has exactly one group from "__start__", it is the first
\* group, its to.nodes are the targets of S's outgoing edges of every kind in
\* edge order, and no group is from S's id.
C6_StartGroupFirstAndComplete ==
    (SimpleExported /\ Len(StartNodes(workflow)) = 1
        /\ Len(OutNeighbours(workflow, StartNodes(workflow)[1].id)) > 0) =>
        LET S == StartNodes(workflow)[1]
            groups == simpleSpec.edges
        IN  /\ Len(groups) >= 1
            /\ groups[1].from = S_START
            /\ \A i \in 2..Len(groups) : groups[i].from # S_START
            /\ groups[1].to.nodes = OutNeighbours(workflow, S.id)
            /\ \A i \in 1..Len(groups) : groups[i].from # S.id

\* a start node with two outgoing edges, one of them conditional, listed
\* after an edge of another source
C6_Witness ==
    /\ SimpleExported
    /\ Len(StartNodes(workflow)) = 1
    /\ Len(workflow.edges) >= 2
    /\ workflow.edges[1].source # StartNodes(workflow)[1].id
    /\ workflow.edges[2].source = StartNodes(workflow)[1].id
    /\ workflow.edges[2].type = "conditional"
    /\ Len(simpleSpec.edges) = 2

\* the "from" of the group that holds the edges leaving sourceId
GroupName(w, sourceId) ==
    IF Len(StartNodes(w)) > 0 /\ StartNodes(w)[1].id = sourceId THEN S_START ELSE sourceId

\* C7: when W has exactly one start node and exactly one end node E, every
\* edge into E appears in the Langflow export as an "__end__" target of the
\* group of its source, and E's id is no target of any group.
C7_EdgesIntoEndUseSentinel ==
    (LangflowExported /\ Len(StartNodes(workflow)) = 1 /\ Len(EndNodes(workflow)) = 1) =>
        LET E == EndNodes(workflow)[1]
            groups == langflowSpec.edges
        IN  /\ \A i \in 1..Len(workflow.edges) :
                   workflow.edges[i].target = E.id =>
                       \E g \in 1..Len(groups) :
                           /\ groups[g].from = GroupName(workflow, workflow.edges[i].source)
                           /\ S_END \in GroupTargets(groups[g].to)
            /\ \A g \in 1..Len(groups) : E.id \notin GroupTargets(groups[g].to)

\* the sources of W with at least one conditional edge and exactly one edge
\* of another kind
MixedSources(w) ==
    { src \in {w.edges[i].source : i \in 1..Len(w.edges)} :
        /\ \E i \in 1..Len(w.edges) : w.edges[i].source = src /\ w.edges[i].type = "conditional"
        /\ Cardinality({i \in 1..Len(w.edges) :
                           w.edges[i].source = src /\ w.edges[i].type # "conditional"}) = 1 }

\* no group of the given sources has its default among its to.nodes
DefaultNotInNodes(groups, sources) ==
    \A g \in 1..Len(groups) :
        (groups[g].from \in sources /\ "default" \in DOMAIN groups[g].to
            /\ "nodes" \in DOMAIN groups[g].to)
            => groups[g].to.default \notin Elements(groups[g].to.nodes)

\* C8: in the output of either exporter, the group of a source with at least
\* one conditional edge and exactly one non-conditional edge never has a
\* default that is also one of its to.nodes.
C8_DefaultExclusive ==
    /\ SimpleExported => DefaultNotInNodes(simpleSpec.edges, MixedSources(workflow))
    /\ LangflowExported => DefaultNotInNodes(langflowSpec.edges, MixedSources(workflow))

\* C9: normalizing an exported input value again leaves it unchanged.
C9_NormalizationIdempotent ==
    SimpleExported =>
        \A i \in 1..Len(simpleSpec.nodes) :
            \A j \in 1..Len(simpleSpec.nodes[i].inputs) :
                NormalizeReference(simpleSpec.nodes[i].inputs[j].v, workflow.nodes)
                    = simpleSpec.nodes[i].inputs[j].v

\* the named inputs of a node that hold exactly one value, with that value:
\* an array entry or a map entry with one of value / reference set, or a map
\* key bound to a string
HeldInputs(node) ==
    LET one(e) == IF Truthy(Get(e, "value")) THEN Get(e, "value") ELSE Get(e, "reference")
        single(e) == Truthy(Get(e, "name")) /\ (Truthy(Get(e, "value")) # Truthy(Get(e, "reference")))
    IN  IF node.data.inputs.shape = "array"
        THEN { <<e.name.s, one(e)>> : e \in {x \in Elements(node.data.inputs.items) : single(x)} }
        ELSE { <<kv.k, kv.v>> : kv \in {x \in Elements(node.data.inputs.m) : IsStr(x.v)} }
             \cup { <<kv.v.name.s, one(kv.v)>> :
                      kv \in {x \in Elements(node.data.inputs.m) : ~IsStr(x.v) /\ single(x.v)} }

\* v is `$<id>.<digits>`: the digits, as a set of zero or one strings
IndexOfReference(v, id) ==
    { SubSeq(v, k + 1, Len(v)) : k \in { j \in 2..Len(v) :
        /\ v[1] = "$"
        /\ v[j] = "."
        /\ SubSeq(v, 2, j - 1) = id
        /\ IsDigits(SubSeq(v, j + 1, Len(v))) } }

ReferenceParts(v) ==
    { <<SubSeq(v, 2, j - 1), SubSeq(v, j + 1, Len(v))>> : j \in { k \in 2..Len(v) :
        /\ v[1] = "$"
        /\ v[k] = "."
        /\ \A i \in 2..(k - 1) : v[i] # "."
        /\ IsDigits(SubSeq(v, k + 1, Len(v))) } }

\* the reference <<id, digits>> cannot be resolved in w: id names no node, or
\* the node's outputs are a list with no entry at that position
Unresolvable(w, part) ==
    \/ \A r \in 1..Len(w.nodes) : w.nodes[r].id # part[1]
    \/ \E r \in 1..Len(w.nodes) :
           /\ w.nodes[r].id = part[1]
           /\ w.nodes[r].data.outputs.shape = "array"
           /\ ParseInt(part[2]) >= Len(w.nodes[r].data.outputs.items)

C11_UnknownNodeReached ==
    /\ SimpleExported
    /\ Len(workflow.nodes) = 2
    /\ <<N_x, Str(<<"$", "1", ".", "0">>)>> \in HeldInputs(workflow.nodes[1])
    /\ Lookup(simpleSpec.nodes[1].inputs, N_x) = Str(<<"$", "1", ".", "0">>)

\* the node was constructed with no explicit inputs and outputs
ConstructedPlain(node) == node.data = initializeNodeData(node.type, [label |-> node.data.label])

\* C12: a tool node constructed with no explicit inputs and outputs is
\* exported with a non-empty inputs map holding endpoint, method, headers and
\* payload, and with an outputs map holding result.
C12_ToolDefaultsExported ==
    SimpleExported =>
        \A i \in 1..Len(workflow.nodes) :
            (workflow.nodes[i].type = "tool" /\ ConstructedPlain(workflow.nodes[i])) =>
                /\ Len(simpleSpec.nodes[i].inputs) > 0
                /\ {S_endpoint, S_method, S_headers, S_payload} \subseteq KeySet(simpleSpec.nodes[i].inputs)
                /\ S_result \in KeySet(simpleSpec.nodes[i].outputs)

\* a plain tool node exported with the constructor's ports
C12_Witness ==
    /\ SimpleExported
    /\ \E i \in 1..Len(workflow.nodes) :
           /\ workflow.nodes[i].type = "tool"
           /\ ConstructedPlain(workflow.nodes[i])
           /\ KeySet(simpleSpec.nodes[i].inputs)
                  = {S_tool_type, S_endpoint, S_method, S_headers, S_payload}
           /\ KeySet(simpleSpec.nodes[i].outputs) = {S_result}

\* the elements of seq other than those satisfying Drop, in order
Without(seq, Drop(_)) == SelectSeq(seq, LAMBDA x : ~Drop(x))

\* C13: removeNode(id) returns a workflow with no node of that id and no edge
\* at that id, and with every other node and every other edge of the
\* receiver in the original order.
C13_RemoveNodeCascades ==
    (pc = "called" /\ methodCall.op = "removeNode") =>
        LET id == methodCall.arg
            w == methodCall.receiver
            r == methodCall.result
        IN  /\ \A i \in 1..Len(r.nodes) : r.nodes[i].id # id
            /\ \A i \in 1..Len(r.edges) : r.edges[i].source # id /\ r.edges[i].target # id
            /\ r.nodes = Without(w.nodes, LAMBDA n : n.id = id)
            /\ r.edges = Without(w.edges, LAMBDA e : e.source = id \/ e.target = id)

\* a node with an edge at it is removed and another edge is kept
C13_Witness ==
    /\ pc = "called"
    /\ methodCall.op = "removeNode"
    /\ Len(methodCall.receiver.edges) = 2
    /\ Len(methodCall.result.edges) = 1
    /\ Len(methodCall.result.nodes) = Len(methodCall.receiver.nodes) - 1

NodesOfType(st, type) ==
    IF st.currentWorkflow = Null THEN <<>>
    ELSE SelectSeq(st.currentWorkflow.nodes, LAMBDA node : node.type = type)

\* C14: after any sequence of createWorkflow, addNode, deleteNode, updateNode,
\* updateNodeId, updateNodePosition, addEdge, updateEdge, deleteEdge and
\* createConditionalBranch from the empty store, the current workflow has at most
\* one start node and at most one end node.
C14_AtMostOneStartAndEnd ==
    pc = "store" =>
        /\ Len(NodesOfType(store, "start")) <= 1
        /\ Len(NodesOfType(store, "end")) <= 1

\* C15: after any interleaving of addNode, deleteNode, updateNodeId, addEdge,
\* deleteEdge, selectConditionalNode and createConditionalBranch from the empty
\* store, with addEdge called with ids of existing nodes and
\* selectConditionalNode with existing nodes, the source and the target of
\* every edge of the current workflow are ids of its nodes.
C15_EdgesJoinCurrentNodes ==
    (pc = "branch" /\ store.currentWorkflow # Null) =>
        \A i \in 1..Len(store.currentWorkflow.edges) :
            /\ store.currentWorkflow.edges[i].source \in CurrentNodeIds(store)
            /\ store.currentWorkflow.edges[i].target \in CurrentNodeIds(store)

\* parsed JSON that is not an object or lacks a nodes array or an edges array
LacksArrays(importedData) ==
    \/ importedData.t # "obj"
    \/ ~IsArray(Get(importedData, "nodes"))
    \/ ~IsArray(Get(importedData, "edges"))

HandledImport ==
    pc \in {"toolbar", "files"} /\ methodCall # None /\ methodCall.op = "handleImport"

\* C17: when handleImport is given parsed JSON that is not an object or lacks
\* a nodes array or an edges array, the import ends in the error branch:
\* loadWorkflow is not called, the one error alert is shown, and the store's
\* currentWorkflow, workflows, selectedNode and selectedEdge are as before.
C17_BadFileLeavesStore ==
    (HandledImport /\ LacksArrays(methodCall.arg)) =>
        /\ ~methodCall.loadWorkflowCalled
        /\ methodCall.alert = InvalidFileAlert
        /\ store.currentWorkflow = methodCall.before.currentWorkflow
        /\ store.workflows = methodCall.before.workflows
        /\ store.selectedNode = methodCall.before.selectedNode
        /\ store.selectedEdge = methodCall.before.selectedEdge

\* a file with a nodes array and no edges is refused while a workflow is
\* loaded and a node selected
C17_Witness ==
    /\ HandledImport
    /\ methodCall.arg.t = "obj"
    /\ IsArray(Get(methodCall.arg, "nodes"))
    /\ Get(methodCall.arg, "nodes").items # <<>>
    /\ Get(methodCall.arg, "edges") = Undef
    /\ Get(methodCall.arg, "version") = Undef
    /\ ~methodCall.loadWorkflowCalled
    /\ store.currentWorkflow # Null
    /\ store.selectedNode # Null

\* handleImport took the SimpleWorkflowSpec branch and loaded the result
LoadedSimpleSpec ==
    /\ HandledImport
    /\ methodCall.loadWorkflowCalled
    /\ Truthy(Get(methodCall.arg, "version"))

\* the number of edges importFromSimpleSpec pushes for one group
GroupEdgeCount(to) == Len(SimpleImportConditional(SimpleImportRegular(<<>>, <<>>, to), <<>>, to))

\* the number of edges pushed for the groups before the i-th
RECURSIVE EdgesBeforeGroup(_, _)
EdgesBeforeGroup(edgeSpecs, i) ==
    IF i = 1 THEN 0
    ELSE EdgesBeforeGroup(edgeSpecs, i - 1) + GroupEdgeCount(edgeSpecs[i - 1].to)

\* the source the edges of a "__start__" group are to get
StartGroupSource(nodeSpecs) ==
    LET startNode == Find(nodeSpecs, LAMBDA n : n.type = "start")
    IN  IF startNode = <<>> THEN S_START ELSE startNode[1].id

\* C18: importFromSimpleSpec does not throw on a "__start__" group; the edges
\* made from the group have the start node's id as source when the spec has a
\* start node and the literal "__start__" when it has none.
C18_StartSentinelKept ==
    LoadedSimpleSpec =>
        LET nodeSpecs == methodCall.arg.nodes.items
            edgeSpecs == methodCall.arg.edges.items
        IN  \A i \in 1..Len(edgeSpecs) :
                edgeSpecs[i].from = S_START =>
                    \A j \in 1..GroupEdgeCount(edgeSpecs[i].to) :
                        store.currentWorkflow.edges[EdgesBeforeGroup(edgeSpecs, i) + j].source
                            = StartGroupSource(nodeSpecs)

\* the group of an edge's source names the edge's target: by its id, or as
\* "__end__" when the target is an end node
EdgeListed(w, groups, edge) ==
    \E g \in 1..Len(groups) :
        /\ groups[g].from = GroupName(w, edge.source)
        /\ \/ edge.target \in GroupTargets(groups[g].to)
           \/ IsEndTarget(w.nodes, edge.target) /\ S_END \in GroupTargets(groups[g].to)

\* C19: exportToLangflowSpec loses no edge: every edge of W is listed by the
\* group of its source, in to.nodes, in to.conditional_edges or as to.default.
C19_LangflowExportKeepsEdges ==
    LangflowExported =>
        \A i \in 1..Len(workflow.edges) : EdgeListed(workflow, langflowSpec.edges, workflow.edges[i])

\* the entry the simple export is to hold for a conditional edge: its
\* condition when it has one, "true" when it has none
ExpectedConditionalEntry(edge) ==
    [if |-> [condition |-> IF Get(edge.data, "condition") # Undef THEN edge.data.condition
                           ELSE Str(S_true)],
     node |-> edge.target]

\* the sources other than the start node that have a conditional edge
ConditionalSources(w) ==
    { src \in {w.edges[i].source : i \in 1..Len(w.edges)} :
        /\ GroupName(w, src) = src
        /\ \E i \in 1..Len(w.edges) : w.edges[i].source = src /\ w.edges[i].type = "conditional" }

\* C20: for every source other than the start node with a conditional edge,
\* the group of the simple export has one conditional_edges entry per
\* conditional edge of the source, in edge order, with the edge's target as
\* node and the edge's condition (the empty string included) as condition,
\* "true" standing only for a missing condition.
C20_ConditionKeptAsWritten ==
    SimpleExported =>
        \A src \in ConditionalSources(workflow) :
            \E g \in 1..Len(simpleSpec.edges) :
                /\ simpleSpec.edges[g].from = src
                /\ "conditional_edges" \in DOMAIN simpleSpec.edges[g].to
                /\ simpleSpec.edges[g].to.conditional_edges
                       = Map(ExpectedConditionalEntry,
                             SelectSeq(EdgesOf(workflow.edges, src),
                                       LAMBDA e : e.type = "conditional"))

\* the inputs of a list of named entries, stored as a name-keyed map of the
\* same entries
AsNameKeyedMap(io) ==
    MapIO([i \in 1..Len(io.items) |-> KV(io.items[i].name.s, io.items[i])])

\* a list of entries with distinct string names
IsEntryList(io) ==
    /\ io.shape = "array"
    /\ \A i \in 1..Len(io.items) :
           /\ Get(io.items[i], "name") # Undef
           /\ IsStr(io.items[i].name)
           /\ io.items[i].name.s # <<>>
    /\ \A i, j \in 1..Len(io.items) : io.items[i].name = io.items[j].name => i = j

\* C21: a node that stores its input entries as a list and a node that stores
\* the same entries as a name-keyed map export the same inputs, also when an
\* entry has a value and a reference that differ.
C21_StoredShapesExportAlike ==
    SimpleExported =>
        \A i \in 1..Len(workflow.nodes) :
            LET node == workflow.nodes[i]
                twin == [node EXCEPT !.data.inputs = AsNameKeyedMap(node.data.inputs)]
            IN  IsEntryList(node.data.inputs) =>
                    AsFunction(simpleSpec.nodes[i].inputs)
                        = AsFunction(convertNodeToSimpleSpec(twin, workflow.nodes).inputs)

\* the spec nodes of type end
SpecEndNodes(spec) == SelectSeq(spec.nodes, LAMBDA n : n.type = "end")

\* the targets a group names with the sentinel "__end__", in to.nodes and in
\* to.conditional_edges
NamesEnd(to) ==
    \/ "nodes" \in DOMAIN to /\ S_END \in Elements(to.nodes)
    \/ /\ "conditional_edges" \in DOMAIN to
       /\ \E i \in 1..Len(to.conditional_edges) : to.conditional_edges[i].node = S_END

\* C22: when the spec has exactly one end node, importFromSimpleSpec makes an
\* edge to that node's id for every "__end__" entry of to.nodes and of
\* conditional_edges, and no created edge has "__end__" as its target.
C22_EndSentinelResolved ==
    (SimpleImportDone /\ ~simpleImported.threw /\ Len(SpecEndNodes(simpleSpec)) = 1) =>
        LET endId == SpecEndNodes(simpleSpec)[1].id
            edges == simpleImported.workflow.edges
        IN  /\ \A g \in 1..Len(simpleSpec.edges) :
                   NamesEnd(simpleSpec.edges[g].to) =>
                       \E i \in 1..Len(edges) :
                           /\ edges[i].source
                                  = SimpleImportSource(simpleImported.workflow.nodes,
                                                       simpleSpec.edges[g].from)
                           /\ edges[i].target = endId
            /\ \A i \in 1..Len(edges) : edges[i].target # S_END

\* the edges of kind default from source to target
DefaultEdges(edges, source, target) ==
    SelectSeq(edges, LAMBDA e : e.source = source /\ e.target = target /\ e.type = "default")

\* the to.nodes entries of a group that name the target
NodesEntries(to, target) ==
    IF "nodes" \in DOMAIN to THEN SelectSeq(to.nodes, LAMBDA t : t = target) ELSE <<>>

\* C23: for every group whose to.default is present and not "__end__",
\* importFromSimpleSpec makes one edge of kind default from the group's source
\* to to.default, beside the edges made for to.nodes, with or without
\* conditional_edges.
C23_DefaultBecomesEdge ==
    LoadedSimpleSpec =>
        LET edgeSpecs == methodCall.arg.edges.items
            edges == store.currentWorkflow.edges
        IN  \A g \in 1..Len(edgeSpecs) :
                LET to == edgeSpecs[g].to
                    source == SimpleImportSource(store.currentWorkflow.nodes, edgeSpecs[g].from)
                IN  ("default" \in DOMAIN to /\ to.default # S_END) =>
                        Len(DefaultEdges(edges, source, to.default))
                            >= Len(NodesEntries(to, to.default)) + 1

\* the file handleImport loaded has been written back by handleExport
ReExported == LoadedSimpleSpec /\ simpleSpec # None

\* C24: every node input of a spec S whose value is a template reference
\* "$config.<key>" has the same string as its value in
\* exportToSimpleSpec(importFromSimpleSpec(S)).
C24_TemplateReferenceRoundTrips ==
    ReExported =>
        \A i \in 1..Len(methodCall.arg.nodes.items) :
            LET nodeSpec == methodCall.arg.nodes.items[i]
            IN  \A k \in 1..Len(nodeSpec.inputs) :
                    (IsStr(nodeSpec.inputs[k].v) /\ StartsWith(nodeSpec.inputs[k].v.s, S_configPrefix))
                        => \E j \in 1..Len(simpleSpec.nodes) :
                               /\ simpleSpec.nodes[j].id = nodeSpec.id
                               /\ HasKey(simpleSpec.nodes[j].inputs, nodeSpec.inputs[k].k)
                               /\ Lookup(simpleSpec.nodes[j].inputs, nodeSpec.inputs[k].k)
                                      = nodeSpec.inputs[k].v

\* C25: after any sequence of addNode and deleteNode from the empty store, the
\* nodes of the current workflow have pairwise distinct ids.
C25_NodeIdsDistinct ==
    (pc = "nodes" /\ store.currentWorkflow # Null) =>
        \A i, j \in 1..Len(store.currentWorkflow.nodes) :
            store.currentWorkflow.nodes[i].id = store.currentWorkflow.nodes[j].id => i = j

\* the new ids updateNodeId is judged on: those the store is driven with, the
\* empty string and a fresh id
RenameArguments == RenameIds \cup {<<>>, <<"x", " ">>}

\* what updateNodeId(oldId, newId) is to do in the store st
UpdateNodeIdAsClaimed(st, oldId, newId) ==
    LET after == StoreUpdateNodeId(st, oldId, newId, 2)
        returned == updateNodeIdReturns(st, oldId, newId)
        trimmed == Trim(newId)
        before == st.currentWorkflow
        w == after.currentWorkflow
    IN  IF \/ trimmed = <<>>
           \/ oldId \notin NodeIds(before.nodes)
           \/ trimmed # oldId /\ trimmed \in NodeIds(before.nodes)
        THEN ~returned /\ after = st
        ELSE /\ returned
             /\ Len(w.nodes) = Len(before.nodes)
             /\ Len(w.edges) = Len(before.edges)
             /\ trimmed # oldId =>
                    /\ oldId \notin NodeIds(w.nodes)
                    /\ \A i \in 1..Len(w.edges) :
                           w.edges[i].source # oldId /\ w.edges[i].target # oldId
             /\ \A i \in 1..Len(before.edges) :
                    /\ before.edges[i].source = oldId => w.edges[i].source = trimmed
                    /\ before.edges[i].target = oldId => w.edges[i].target = trimmed

\* C26: updateNodeId(oldId, newId) returns false and leaves the store unchanged
\* when newId is blank, oldId names no node or the trimmed newId is another
\* node's id; otherwise it returns true, the numbers of nodes and of edges are
\* kept, oldId is gone and every edge end that was oldId is the trimmed newId.
C26_UpdateNodeIdContract ==
    (pc = "store" /\ store.currentWorkflow # Null) =>
        \A oldId \in AnyNodeIds(store), newId \in RenameArguments :
            UpdateNodeIdAsClaimed(store, oldId, newId)

\* handleSaveNode has saved a node whose id and label were both changed
SavedWithNewIdAndLabel ==
    /\ pc = "panel"
    /\ methodCall # None
    /\ methodCall.op = "handleSaveNode"
    /\ ~methodCall.errors
    /\ methodCall.nodeId # methodCall.selectedNode.id
    /\ methodCall.nodeLabel # methodCall.selectedNode.data.label

\* C27: after handleSaveNode saved a node whose id and label were both
\* changed, the current workflow has a node with the new id that carries the
\* new label and description.
C27_SaveKeepsLabelUnderNewId ==
    SavedWithNewIdAndLabel =>
        \E node \in CurrentNodes(store) :
            /\ node.id = Trim(methodCall.nodeId)
            /\ node.data.label = methodCall.nodeLabel
            /\ "description" \in DOMAIN node.data
            /\ node.data.description = methodCall.nodeDescription

\* createConditionalBranch has just been called
BranchCalled ==
    pc = "conditional" /\ methodCall # None /\ methodCall.op = "createConditionalBranch"

\* C28: createConditionalBranch(c) changes nothing when a node of the
\* conditional mode is unset or there is no current workflow; otherwise it
\* appends two conditional edges, source to true node with condition c and
\* source to false node with condition !(c), keeps the earlier edges and the
\* nodes, and resets the conditional mode, its panel and its three nodes.
C28_BranchAppendsTwoEdges ==
    BranchCalled =>
        LET before == methodCall.before
            c == methodCall.condition
        IN  IF ~BranchReady(before) THEN store = before
            ELSE LET w == store.currentWorkflow
                     n == Len(before.currentWorkflow.edges)
                 IN  /\ Len(w.edges) = n + 2
                     /\ w.edges[n + 1].type = "conditional"
                     /\ w.edges[n + 1].source = before.conditionalSourceNode.id
                     /\ w.edges[n + 1].target = before.conditionalTrueNode.id
                     /\ w.edges[n + 1].data.condition = Str(c)
                     /\ w.edges[n + 2].type = "conditional"
                     /\ w.edges[n + 2].source = before.conditionalSourceNode.id
                     /\ w.edges[n + 2].target = before.conditionalFalseNode.id
                     /\ w.edges[n + 2].data.condition = Str(<<"!", "(">> \o c \o <<")">>)
                     /\ SubSeq(w.edges, 1, n) = before.currentWorkflow.edges
                     /\ w.nodes = before.currentWorkflow.nodes
                     /\ ~store.conditionalEdgeMode
                     /\ ~store.showConditionalPanel
                     /\ store.conditionalSourceNode = Null
                     /\ store.conditionalTrueNode = Null
                     /\ store.conditionalFalseNode = Null

\* a branch was created in conditional mode on a workflow that had an edge
C28_Witness ==
    /\ BranchCalled
    /\ BranchReady(methodCall.before)
    /\ methodCall.before.conditionalEdgeMode
    /\ Len(methodCall.before.currentWorkflow.edges) = 1
    /\ Len(store.currentWorkflow.edges) = 3
    /\ methodCall.before.conditionalTrueNode # methodCall.before.conditionalFalseNode

\* the call was made with a node of the conditional mode unset
C28_NothingToBranch == BranchCalled /\ ~BranchReady(methodCall.before)

\* C29: through setSelectedNode, setSelectedEdge, deleteNode, deleteEdge,
\* updateNode, updateEdge, updateNodeId, deleteWorkflow and loadWorkflow, a
\* selected node has the id of a node of the current workflow and a selected
\* edge has the id of an edge of the current workflow.
C29_SelectionInCurrentWorkflow ==
    pc = "select" =>
        /\ store.selectedNode # Null => store.selectedNode.id \in CurrentNodeIds(store)
        /\ store.selectedEdge # Null => store.selectedEdge.id \in CurrentEdgeIds(store)

\* the entries of the workflows list with the id of the current workflow
EntriesOfCurrent(st) ==
    {i \in 1..Len(st.workflows) : st.workflows[i].id = st.currentWorkflow.id}

\* C30: whenever there is a current workflow, the workflows list has exactly
\* one entry with its id, and that entry has the nodes and edges of the
\* current workflow; also after loadWorkflow and edits, setNodes and setEdges.
C30_ListHoldsCurrentWorkflow ==
    (pc = "edit" /\ store.currentWorkflow # Null) =>
        /\ Cardinality(EntriesOfCurrent(store)) = 1
        /\ \A i \in EntriesOfCurrent(store) :
               /\ store.workflows[i].nodes = store.currentWorkflow.nodes
               /\ store.workflows[i].edges = store.currentWorkflow.edges

====
